---------------------------- MODULE Spec2Model ----------------------------
(***************************************************************************)
(* A model of the vector-path core of manim/mobject/types/                 *)
(* vectorized_mobject.py: the flattened cubic-Bezier points buffer of a    *)
(* VMobject and the operations that build, measure, align, cut and dash    *)
(* it.                                                                     *)
(*                                                                         *)
(* Coordinates are exact rationals <<numerator, denominator>> and every    *)
(* point lies on one axis (its other two coordinates are 0), so that       *)
(* interpolation, Bezier evaluation, subdivision and the sampled curve     *)
(* length are computed exactly as the code's formulas state them;          *)
(* floating-point rounding and the point-equality tolerance (1e-6) are     *)
(* not modelled: two points are "considered equal" when they are equal.    *)
(***************************************************************************)
EXTENDS Integers, Sequences, FiniteSets, TLC

VARIABLES points, other, chain, last, calls, dashed, query, submobjects,
          submob_dict, rgbas

vars == <<points, other, chain, last, calls, dashed, query, submobjects,
          submob_dict, rgbas>>

\* the state of the containers (VGroup, VDict)
containers == <<submobjects, submob_dict>>

-----------------------------------------------------------------------------
(* Exact rational arithmetic (the floats of the code, without rounding).   *)

Abs(n) == IF n < 0 THEN -n ELSE n

RECURSIVE Gcd(_, _)
Gcd(a, b) == IF b = 0 THEN a ELSE Gcd(b, a % b)

\* Every operator of this section binds its arguments before it uses them,
\* so that an argument which is itself a long computation is computed once.
Only(S) == CHOOSE z \in S : TRUE

R(n, d) ==
    Only({LET s == IF y < 0 THEN -1 ELSE 1
              g == Gcd(Abs(x), Abs(y))
          IN  IF x = 0 THEN <<0, 1>> ELSE <<(s * x) \div g, (s * y) \div g>> :
          x \in {n}, y \in {d}})

Q(n) == <<n, 1>>

RAdd(a, b) ==
    Only({LET g == Gcd(x[2], y[2])
          IN  R(x[1] * (y[2] \div g) + y[1] * (x[2] \div g),
                (x[2] \div g) * y[2]) :
          x \in {a}, y \in {b}})
RNeg(a) == Only({<<-x[1], x[2]>> : x \in {a}})
RSub(a, b) == RAdd(a, RNeg(b))
RMul(a, b) ==
    Only({LET g == Gcd(Abs(x[1]), y[2])
              h == Gcd(Abs(y[1]), x[2])
          IN  IF x[1] = 0 \/ y[1] = 0 THEN <<0, 1>>
              ELSE R((x[1] \div g) * (y[1] \div h),
                     (x[2] \div h) * (y[2] \div g)) :
          x \in {a}, y \in {b}})
RInv(a) == Only({IF x[1] < 0 THEN <<-x[2], -x[1]>> ELSE <<x[2], x[1]>> :
                 x \in {a}})
RDiv(a, b) == RMul(a, RInv(b))
RLe(a, b) == RSub(a, b)[1] <= 0
RLt(a, b) == RSub(a, b)[1] < 0
RAbs(a) == Only({<<Abs(x[1]), x[2]>> : x \in {a}})
RFloor(a) == Only({x[1] \div x[2] : x \in {a}})
RMod(a, m) ==
    Only({RSub(x, RMul(Q(RFloor(RDiv(x, y))), y)) : x \in {a}, y \in {m}})

RECURSIVE RSum(_)
RSum(s) ==
    Only({IF x = <<>> THEN Q(0)
          ELSE IF Len(x) = 1 THEN x[1]
          ELSE RAdd(RSum(SubSeq(x, 1, Len(x) \div 2)),
                    RSum(SubSeq(x, Len(x) \div 2 + 1, Len(x)))) : x \in {s}})

-----------------------------------------------------------------------------
(* Program constants.                                                      *)

n_points_per_cubic_curve == 4

n_points_per_curve == n_points_per_cubic_curve

\* np.linspace(0, 1, n_points_per_cubic_curve)
bezier_t_values == <<Q(0), R(1, 3), R(2, 3), Q(1)>>

-----------------------------------------------------------------------------
(* Geometry kernel (manim.utils.bezier, spec section 4.1).                 *)

\* interpolate(start, end, alpha) = (1 - alpha) * start + alpha * end
interpolate(a, b, t) ==
    Only({RAdd(RMul(RSub(Q(1), x), a), RMul(x, b)) : x \in {t}})

\* curveAt: standard cubic Bezier evaluation of the 4 control points c at t
bezier(c, t) ==
    Only({LET b0 == RMul(m, RMul(m, m))
              b1 == RMul(Q(3), RMul(RMul(m, m), x))
              b2 == RMul(Q(3), RMul(m, RMul(x, x)))
              b3 == RMul(x, RMul(x, x))
          IN  RAdd(RAdd(RMul(b0, p[1]), RMul(b1, p[2])),
                   RAdd(RMul(b2, p[3]), RMul(b3, p[4]))) :
          p \in {c}, x \in {t}, m \in {RSub(Q(1), t)}})

\* de Casteljau with one parameter per level: the control point of the
\* sub-curve over [a, b] that belongs to the parameters (u, v, w)
Blossom(c, u, v, w) ==
    Only({interpolate(interpolate(p01, p12, v), interpolate(p12, p23, v), w) :
          p01 \in {interpolate(c[1], c[2], u)},
          p12 \in {interpolate(c[2], c[3], u)},
          p23 \in {interpolate(c[3], c[4], u)}})

\* partialCurve: control points of the sub-curve of c over [a, b]
partial_bezier_points(c, a, b) ==
    Only({IF x = Q(1) THEN <<p[4], p[4], p[4], p[4]>>
          ELSE IF y = Q(0) THEN <<p[1], p[1], p[1], p[1]>>
          ELSE <<Blossom(p, x, x, x), Blossom(p, x, x, y),
                 Blossom(p, x, y, y), Blossom(p, y, y, y)>> :
          p \in {c}, x \in {a}, y \in {b}})

\* integerInterpolate(start, end, alpha): (index, residue) with
\* index + residue = alpha * (end - start), index clamped to start..end-1
integer_interpolate(start, end, alpha) ==
    Only({IF RLe(Q(1), x) THEN <<end - 1, Q(1)>>
          ELSE IF RLe(x, Q(0)) THEN <<start, Q(0)>>
          ELSE <<RFloor(interpolate(Q(start), Q(end), x)),
                 RMod(RMul(Q(end - start), x), Q(1))>> :
          x \in {alpha}})

\* the k-th (1-based) 4-point chunk of a buffer
Chunk(pts, k) == SubSeq(pts, n_points_per_cubic_curve * (k - 1) + 1,
                        n_points_per_cubic_curve * k)

RECURSIVE Flatten(_)
Flatten(ss) ==
    Only({IF x = <<>> THEN <<>>
          ELSE IF Len(x) = 1 THEN x[1]
          ELSE Flatten(SubSeq(x, 1, Len(x) \div 2))
               \o Flatten(SubSeq(x, Len(x) \div 2 + 1, Len(x))) : x \in {ss}})

\* subdivide_bezier(curve, n): n sub-curves over [i/n, (i+1)/n]
subdivide_bezier(c, n) ==
    Flatten([i \in 1..n |-> partial_bezier_points(c, R(i - 1, n), R(i, n))])

\* bezier_remap: the "bezier remap" of spec section 4.4: curve i (0-based) of
\* the cur curves is split into as many pieces as there are j in 0..new-1
\* with (j * cur) div new = i
bezier_remap(tuples, new) ==
    LET cur == Len(tuples)
        sf(i) == Cardinality({j \in 0..(new - 1) : (j * cur) \div new = i})
    IN  Flatten([i \in 1..cur |-> subdivide_bezier(tuples[i], sf(i - 1))])

-----------------------------------------------------------------------------
(* Path buffer.  An operation yields [err, points]: err is "ok" or the     *)
(* exception the call raises, points the buffer when the call ends.        *)

Ok(pts) == [err |-> "ok", points |-> pts]
Raise(e, pts) == [err |-> e, points |-> pts]

\* s[lo..hi] for 1-based, inclusive bounds, empty when hi < lo
Slice(s, lo, hi) == IF hi < lo THEN <<>> ELSE SubSeq(s, lo, hi)

Repeat(x, n) == [i \in 1..n |-> x]

Reverse(s) == [i \in 1..Len(s) |-> s[Len(s) + 1 - i]]

has_no_points(pts) == Len(pts) = 0

consider_points_equals(p0, p1) == p0 = p1

append_points(pts, new_points) == pts \o new_points

get_num_curves(pts) == Len(pts) \div n_points_per_cubic_curve

has_new_path_started(pts) == Len(pts) % n_points_per_cubic_curve = 1

get_last_point(pts) == pts[Len(pts)]

\* points[::nppcc]
get_start_anchors(pts) ==
    [i \in 1..((Len(pts) + n_points_per_cubic_curve - 1)
                   \div n_points_per_cubic_curve)
        |-> pts[n_points_per_cubic_curve * (i - 1) + 1]]

\* start_new_path that closes an unfinished curve with the first start
\* anchor of the buffer
start_new_path_FirstAnchor(pts, point) ==
    LET n_points == Len(pts)
        nppc == n_points_per_curve
    IN  IF n_points % nppc # 0
        THEN Ok(append_points(pts,
                    Repeat(get_start_anchors(pts)[1], nppc - (n_points % nppc))
                    \o <<point>>))
        ELSE Ok(append_points(pts, <<point>>))

\* start_new_path without the closure of an unfinished curve
start_new_path_NoClosure(pts, point) == Ok(append_points(pts, <<point>>))

start_new_path(pts, point) ==
    LET n_points == Len(pts)
        nppc == n_points_per_curve
    IN  IF n_points % nppc # 0
        THEN LET anchors == get_start_anchors(pts)
                 last_anchor == anchors[Len(anchors)]
                 closure == Repeat(last_anchor, nppc - (n_points % nppc))
             IN  Ok(append_points(pts, closure \o <<point>>))
        ELSE Ok(append_points(pts, <<point>>))

\* add_cubic_bezier_curve_to that never prepends the last point as anchor1
add_cubic_bezier_curve_to_NoAnchor(pts, handle1, handle2, anchor) ==
    IF has_no_points(pts) THEN Raise("NoPoints", pts)
    ELSE Ok(append_points(pts, <<handle1, handle2, anchor>>))

add_cubic_bezier_curve_to(pts, handle1, handle2, anchor) ==
    IF has_no_points(pts) THEN Raise("NoPoints", pts)
    ELSE LET new_points == <<handle1, handle2, anchor>>
         IN  IF has_new_path_started(pts)
             THEN Ok(append_points(pts, new_points))
             ELSE Ok(append_points(pts, <<get_last_point(pts)>> \o new_points))

\* the arguments read get_last_point() before the callee is entered
add_quadratic_bezier_curve_to(pts, handle, anchor) ==
    IF Len(pts) = 0 THEN Raise("IndexError", pts)
    ELSE add_cubic_bezier_curve_to(pts,
            RAdd(RMul(R(2, 3), handle), RMul(R(1, 3), get_last_point(pts))),
            RAdd(RMul(R(2, 3), handle), RMul(R(1, 3), anchor)),
            anchor)

add_line_to(pts, point) ==
    IF Len(pts) = 0 THEN Raise("IndexError", pts)
    ELSE add_cubic_bezier_curve_to(pts,
            interpolate(get_last_point(pts), point, bezier_t_values[2]),
            interpolate(get_last_point(pts), point, bezier_t_values[3]),
            interpolate(get_last_point(pts), point, bezier_t_values[4]))

\* rotate_vector(v, PI, axis) on one axis: the half turn about the direction
\* of the points' own axis (or about no axis at all) leaves v where it is
rotate_vector_pi(v, axis) == v

\* args: <<anchor>> or <<handle2, anchor>>
add_smooth_curve_to(pts, args) ==
    IF Len(args) \notin {1, 2} THEN Raise("ValueError", pts)
    ELSE LET new_anchor == args[Len(args)]
         IN  IF has_new_path_started(pts) THEN add_line_to(pts, new_anchor)
             ELSE IF has_no_points(pts) THEN Raise("NoPoints", pts)
             ELSE LET last_h2 == pts[Len(pts) - 1]
                      last_a2 == pts[Len(pts)]
                      last_tangent == RSub(last_a2, last_h2)
                      handle1 == RAdd(last_a2, last_tangent)
                      handle2 ==
                          IF Len(args) = 1
                          THEN RSub(new_anchor,
                                    rotate_vector_pi(last_tangent,
                                                     RSub(new_anchor, last_a2)))
                          ELSE args[1]
                  IN  Ok(append_points(pts,
                            <<last_a2, handle1, handle2, new_anchor>>))

add_points_as_corners(pts, corners) ==
    IF has_no_points(pts) THEN Raise("NoPoints", pts)
    ELSE IF Len(corners) = 0 THEN Ok(pts)
    ELSE LET start_corners ==
                 [i \in 1..Len(corners) |->
                     IF i = 1 THEN pts[Len(pts)] ELSE corners[i - 1]]
             kept == IF has_new_path_started(pts)
                     THEN Slice(pts, 1, Len(pts) - 1) ELSE pts
             new_points ==
                 Flatten([i \in 1..Len(corners) |->
                     [j \in 1..n_points_per_cubic_curve |->
                         interpolate(start_corners[i], corners[i],
                                     bezier_t_values[j])]])
         IN  Ok(append_points(kept, new_points))

\* the 4-point tuples of a buffer, without its remainder
gen_cubic_bezier_tuples_from_points(pts) ==
    [k \in 1..(Len(pts) \div n_points_per_cubic_curve) |-> Chunk(pts, k)]

\* the (0-based) indices n = 4, 8, ... < len at which points[n-1] and
\* points[n] are not considered equal, between 0 and len
SplitIndices(pts) ==
    LET nppcc == n_points_per_cubic_curve
        cand == {n \in 1..Len(pts) : /\ n % nppcc = 0
                                     /\ n < Len(pts)
                                     /\ ~consider_points_equals(pts[n], pts[n + 1])}
    IN  {0} \cup cand \cup {Len(pts)}

RECURSIVE SortedSeq(_)
SortedSeq(S) ==
    IF S = {} THEN <<>>
    ELSE LET m == CHOOSE x \in S : \A y \in S : x <= y
         IN  <<m>> \o SortedSeq(S \ {m})

get_subpaths_from_points(pts) ==
    LET idx == SortedSeq(SplitIndices(pts))
        pieces == [i \in 1..(Len(idx) - 1) |-> Slice(pts, idx[i] + 1, idx[i + 1])]
    IN  SelectSeq(pieces, LAMBDA sp : Len(sp) >= n_points_per_cubic_curve)

get_subpaths(pts) == get_subpaths_from_points(pts)

is_closed(pts) == consider_points_equals(pts[1], pts[Len(pts)])

\* close_path that does not ask is_closed()
close_path_Always(pts) ==
    IF Len(pts) = 0 THEN Raise("IndexError", pts)
    ELSE LET sps == get_subpaths(pts)
         IN  IF Len(sps) = 0 THEN Raise("IndexError", pts)
             ELSE add_line_to(pts, sps[Len(sps)][1])

close_path(pts) ==
    IF Len(pts) = 0 THEN Raise("IndexError", pts)
    ELSE IF is_closed(pts) THEN Ok(pts)
    ELSE LET sps == get_subpaths(pts)
         IN  IF Len(sps) = 0 THEN Raise("IndexError", pts)
             ELSE add_line_to(pts, sps[Len(sps)][1])

reverse_direction(pts) == Ok(Reverse(pts))

append_vectorized_mobject(pts, vm_points) ==
    LET kept == IF has_new_path_started(pts)
                THEN Slice(pts, 1, Len(pts) - 1) ELSE pts
    IN  Ok(append_points(kept, vm_points))

-----------------------------------------------------------------------------
(* Curve insertion and partial extraction.                                 *)

\* insert_n_curves_to_point_list that repeats a single point n times, not
\* nppcc * n times
insert_n_curves_to_point_list_ShortRepeat(n, pts) ==
    IF Len(pts) = 1
    THEN Ok(Repeat(pts[1], n))
    ELSE LET bezier_tuples == gen_cubic_bezier_tuples_from_points(pts)
         IN  IF Len(bezier_tuples) = 0 THEN Raise("ValueError", pts)
             ELSE Ok(bezier_remap(bezier_tuples, Len(bezier_tuples) + n))

\* bezier_remap has no curve to split when the point list holds none: the
\* call fails and the point list stays as it was
insert_n_curves_to_point_list(n, pts) ==
    IF Len(pts) = 1
    THEN Ok(Repeat(pts[1], n_points_per_cubic_curve * n))
    ELSE LET bezier_tuples == gen_cubic_bezier_tuples_from_points(pts)
             current_number_of_curves == Len(bezier_tuples)
             new_number_of_curves == current_number_of_curves + n
         IN  IF current_number_of_curves = 0 THEN Raise("ValueError", pts)
             ELSE Ok(bezier_remap(bezier_tuples, new_number_of_curves))

insert_n_curves(pts, n) ==
    LET r == insert_n_curves_to_point_list(n, pts)
    IN  IF r.err # "ok" THEN Raise(r.err, pts)
        ELSE IF has_new_path_started(pts)
             THEN Ok(append_points(r.points, <<get_last_point(pts)>>))
             ELSE Ok(r.points)

\* pointwise_become_partial that tests for zero curves before the full copy
pointwise_become_partial_ZeroFirst(self_points, vm_points, a, b) ==
    IF get_num_curves(vm_points) = 0 THEN Ok(self_points)
    ELSE IF RLe(a, Q(0)) /\ RLe(Q(1), b) THEN Ok(vm_points)
    ELSE Ok(partial_bezier_points(Chunk(vm_points, 1), a, b))

\* pointwise_become_partial that leaves out the curves between the first
\* and the last
pointwise_become_partial_NoMiddle(self_points, vm_points, a, b) ==
    IF RLe(a, Q(0)) /\ RLe(Q(1), b) THEN Ok(vm_points)
    ELSE IF get_num_curves(vm_points) = 0 THEN Ok(self_points)
    ELSE LET lo == integer_interpolate(0, get_num_curves(vm_points), a)
             up == integer_interpolate(0, get_num_curves(vm_points), b)
         IN  IF lo[1] = up[1]
             THEN Ok(partial_bezier_points(Chunk(vm_points, lo[1] + 1),
                                           lo[2], up[2]))
             ELSE Ok(partial_bezier_points(Chunk(vm_points, lo[1] + 1),
                                           lo[2], Q(1))
                     \o partial_bezier_points(Chunk(vm_points, up[1] + 1),
                                              Q(0), up[2]))

\* pointwise_become_partial that leaves out a last curve clipped to [0, 0]
pointwise_become_partial_SkipEmptyTail(self_points, vm_points, a, b) ==
    IF RLe(a, Q(0)) /\ RLe(Q(1), b) THEN Ok(vm_points)
    ELSE IF get_num_curves(vm_points) = 0 THEN Ok(self_points)
    ELSE LET lo == integer_interpolate(0, get_num_curves(vm_points), a)
             up == integer_interpolate(0, get_num_curves(vm_points), b)
         IN  IF lo[1] = up[1]
             THEN Ok(partial_bezier_points(Chunk(vm_points, lo[1] + 1),
                                           lo[2], up[2]))
             ELSE Ok(partial_bezier_points(Chunk(vm_points, lo[1] + 1),
                                           lo[2], Q(1))
                     \o Slice(vm_points,
                              n_points_per_curve * (lo[1] + 1) + 1,
                              n_points_per_curve * up[1])
                     \o (IF up[2] = Q(0) THEN <<>>
                         ELSE partial_bezier_points(
                                  Chunk(vm_points, up[1] + 1), Q(0), up[2])))

\* self.points after self.pointwise_become_partial(vmobject, a, b);
\* self_points and vm_points are the two buffers before the call.  With
\* upper_index < lower_index no array of that many curves can be filled:
\* np.empty refuses a negative size, and the first slice assignment fails on
\* the array of size 0 that self.points has become by then
pointwise_become_partial(self_points, vm_points, a, b) ==
    IF RLe(a, Q(0)) /\ RLe(Q(1), b) THEN Ok(vm_points)
    ELSE IF get_num_curves(vm_points) = 0 THEN Ok(self_points)
    ELSE Only({
        LET lower_index == lo[1]
            lower_residue == lo[2]
            upper_index == up[1]
            upper_residue == up[2]
            nppc == n_points_per_curve
        IN  IF lower_index = upper_index
            THEN Ok(partial_bezier_points(Chunk(vm_points, lower_index + 1),
                                          lower_residue, upper_residue))
            ELSE IF upper_index - lower_index + 1 < 0
            THEN Raise("ValueError", self_points)
            ELSE IF upper_index - lower_index + 1 = 0
            THEN Raise("ValueError", <<>>)
            ELSE Ok(partial_bezier_points(Chunk(vm_points, lower_index + 1),
                                          lower_residue, Q(1))
                    \o Slice(vm_points, nppc * (lower_index + 1) + 1,
                             nppc * upper_index)
                    \o partial_bezier_points(Chunk(vm_points, upper_index + 1),
                                             Q(0), upper_residue)) :
        lo \in {integer_interpolate(0, get_num_curves(vm_points), a)},
        up \in {integer_interpolate(0, get_num_curves(vm_points), b)}})

-----------------------------------------------------------------------------
(* Path construction: one VMobject, created empty, and every operation of  *)
(* the path buffer called on it with arguments from small sets.            *)

\* the number of calls made on the VMobject
MaxCalls == 3

\* insert_n_curves is called with n in 0..MaxInsert
MaxInsert == 2

Pts == {Q(0), Q(1)}

CubicArgs == {<<Q(1), Q(1), Q(0)>>, <<Q(2), Q(-1), Q(1)>>}

QuadArgs == {<<Q(1), Q(0)>>}

SmoothArgs == {<<>>, <<Q(1)>>, <<Q(0), Q(1)>>}

CornerArgs == {<<>>, <<Q(0), Q(1)>>}

\* the VMobjects handed to pointwise_become_partial and
\* append_vectorized_mobject, each built by the operations above
PathE == <<>>
PathM == start_new_path(PathE, Q(1)).points
PathL1 == add_line_to(PathM, Q(0)).points
PathL2 == add_line_to(PathL1, Q(1)).points
PathC1 == add_cubic_bezier_curve_to(PathM, Q(2), Q(-1), Q(0)).points
PathLM == start_new_path(PathL1, Q(1)).points
PathJ2 == add_line_to(PathLM, Q(0)).points

AppendArgs == {PathE, PathM, PathL2, PathLM}

\* (vmobject, a, b) with a <= b
PartialArgs ==
    {<<PathM, Q(0), Q(1)>>, <<PathLM, Q(-1), Q(2)>>, <<PathM, Q(0), R(1, 2)>>,
     <<PathC1, R(1, 3), R(2, 3)>>, <<PathL2, R(1, 4), Q(1)>>,
     <<PathJ2, Q(0), R(1, 2)>>, <<PathL2, R(1, 2), R(1, 2)>>}

NoChain == [mode |-> "other", p |-> Q(0), k |-> 0]

\* the call op(...) with result r: the buffer, and what the last call was
Call(op, r, n, a, b, vm, ch) ==
    /\ calls < MaxCalls
    /\ calls' = calls + 1
    /\ points' = r.points
    /\ last' = [op |-> op, err |-> r.err, pre |-> points, n |-> n,
                a |-> a, b |-> b, vm |-> vm]
    /\ chain' = IF r.err = "ok" THEN ch ELSE chain
    /\ UNCHANGED <<other, dashed, query, containers, rgbas>>

StartNewPath ==
    \E p \in Pts :
        Call("start_new_path", start_new_path(points, p), 0, Q(0), Q(0), <<p>>,
             IF chain.mode = "empty"
             THEN [mode |-> "chain", p |-> p, k |-> 0] ELSE NoChain)

AddLineTo ==
    \E p \in Pts :
        Call("add_line_to", add_line_to(points, p), 0, Q(0), Q(0), <<p>>,
             IF chain.mode = "chain"
             THEN [chain EXCEPT !.k = @ + 1] ELSE NoChain)

AddCubicBezierCurveTo ==
    \E c \in CubicArgs :
        Call("add_cubic_bezier_curve_to",
             add_cubic_bezier_curve_to(points, c[1], c[2], c[3]),
             0, Q(0), Q(0), c,
             IF chain.mode = "chain"
             THEN [chain EXCEPT !.k = @ + 1] ELSE NoChain)

AddQuadraticBezierCurveTo ==
    \E c \in QuadArgs :
        Call("add_quadratic_bezier_curve_to",
             add_quadratic_bezier_curve_to(points, c[1], c[2]),
             0, Q(0), Q(0), c, NoChain)

AddSmoothCurveTo ==
    \E c \in SmoothArgs :
        Call("add_smooth_curve_to", add_smooth_curve_to(points, c),
             0, Q(0), Q(0), c, NoChain)

AddPointsAsCorners ==
    \E c \in CornerArgs :
        Call("add_points_as_corners", add_points_as_corners(points, c),
             0, Q(0), Q(0), c, NoChain)

ClosePath ==
    Call("close_path", close_path(points), 0, Q(0), Q(0), <<>>, NoChain)

InsertNCurves ==
    \E n \in 0..MaxInsert :
        Call("insert_n_curves", insert_n_curves(points, n), n, Q(0), Q(0), <<>>,
             NoChain)

ReverseDirection ==
    Call("reverse_direction", reverse_direction(points), 0, Q(0), Q(0), <<>>,
         NoChain)

PointwiseBecomePartial ==
    \E arg \in PartialArgs :
        Call("pointwise_become_partial",
             pointwise_become_partial(points, arg[1], arg[2], arg[3]),
             0, arg[2], arg[3], arg[1], NoChain)

AppendVectorizedMobject ==
    \E vm \in AppendArgs :
        Call("append_vectorized_mobject", append_vectorized_mobject(points, vm),
             0, Q(0), Q(0), vm, NoChain)

NoLast == [op |-> "init", err |-> "ok", pre |-> <<>>, n |-> 0,
           a |-> Q(0), b |-> Q(0), vm |-> <<>>]

Init ==
    /\ points = <<>>
    /\ other = <<>>
    /\ chain = [mode |-> "empty", p |-> Q(0), k |-> 0]
    /\ last = NoLast
    /\ calls = 0
    /\ dashed = <<>>
    /\ query = <<>>
    /\ submobjects = <<>>
    /\ submob_dict = <<>>
    /\ rgbas = <<>>

Next ==
    \/ StartNewPath
    \/ AddLineTo
    \/ AddCubicBezierCurveTo
    \/ AddQuadraticBezierCurveTo
    \/ AddSmoothCurveTo
    \/ AddPointsAsCorners
    \/ ClosePath
    \/ InsertNCurves
    \/ ReverseDirection
    \/ PointwiseBecomePartial
    \/ AppendVectorizedMobject

Spec == Init /\ [][Next]_vars

-----------------------------------------------------------------------------
(* Claims about path construction (specification Spec).                    *)

\* C1: after any sequence of calls of the construction operations on a path
\* created empty, len(points) mod 4 is 0 or 1, and has_new_path_started()
\* is true exactly when it is 1.
C1_LengthMod4 ==
    /\ Len(points) % 4 \in {0, 1}
    /\ has_new_path_started(points) <=> (Len(points) % 4 = 1)

\* start_new_path has closed an unfinished curve and set a new marker
C1_Witness ==
    /\ last.op = "start_new_path"
    /\ Len(last.pre) % 4 = 1
    /\ Len(points) = Len(last.pre) + 4

\* C2: on a path begun with start_new_path(p), after k >= 1 calls of
\* add_line_to / add_cubic_bezier_curve_to: get_num_curves() = len(points)/4
\* = k, the first curve starts at p, and each curve starts at the point the
\* curve before it ends at.
C2_ChainOfCurves ==
    (chain.mode = "chain" /\ chain.k >= 1) =>
        /\ get_num_curves(points) = chain.k
        /\ Len(points) = 4 * chain.k
        /\ points[1] = chain.p
        /\ \A i \in 1..(chain.k - 1) : points[4 * i] = points[4 * i + 1]

C2_Witness == chain.mode = "chain" /\ chain.k >= 2

\* C3: pointwise_become_partial(p, a, b) with a <= 0 and b >= 1 makes
\* self.points a copy of p.points, also when p has no complete curve.
C3_FullCopy ==
    (/\ last.op = "pointwise_become_partial"
     /\ RLe(last.a, Q(0))
     /\ RLe(Q(1), last.b)) =>
        /\ last.err = "ok"
        /\ points = last.vm

\* the full copy of a p that holds a marker and no curve
C3_Witness ==
    /\ last.op = "pointwise_become_partial"
    /\ RLe(last.a, Q(0))
    /\ RLe(Q(1), last.b)
    /\ get_num_curves(last.vm) = 0
    /\ Len(last.vm) = 1
    /\ last.pre # last.vm

\* the last point of the last complete curve of a subpath slice
LastAnchor(sp) == sp[n_points_per_cubic_curve * (Len(sp) \div n_points_per_cubic_curve)]

\* what insert_n_curves(n) promises of the buffer pts it was called on
InsertedExactly(pre, n, pts) ==
    /\ get_num_curves(pts) = get_num_curves(pre) + n
    /\ has_new_path_started(pre) =>
           /\ has_new_path_started(pts)
           /\ get_last_point(pts) = get_last_point(pre)
    /\ ~has_new_path_started(pre) => ~has_new_path_started(pts)
    /\ get_num_curves(pre) >= 1 =>
           LET before == get_subpaths(pre)
               after == get_subpaths(pts)
           IN  /\ Len(after) = Len(before)
               /\ \A i \in 1..Len(before) :
                      /\ after[i][1] = before[i][1]
                      /\ LastAnchor(after[i]) = LastAnchor(before[i])

-----------------------------------------------------------------------------
(* Curve-count alignment of two VMobjects (specification SpecAlign).       *)

\* Mobject.get_center() of a mobject without points: the origin
get_center_of_empty == Q(0)

\* the first two steps of align_points on one of the two mobjects
AlignPrepare(pts) ==
    LET m1 == IF has_no_points(pts)
              THEN start_new_path(pts, get_center_of_empty).points ELSE pts
    IN  IF has_new_path_started(m1)
        THEN add_line_to(m1, get_last_point(m1)).points ELSE m1

\* the while loop of get_nth_subpath: drop the curves at the end of the
\* subpath whose 4 points all equal the point before them
RECURSIVE TrimNullTail(_)
TrimNullTail(path) ==
    LET nppcc == n_points_per_cubic_curve
        n == Len(path)
    IN  IF n > nppcc
           /\ \A i \in (n - nppcc + 1)..n :
                  consider_points_equals(path[i], path[n - nppcc])
        THEN TrimNullTail(SubSeq(path, 1, n - nppcc))
        ELSE path

\* n counts from 0
get_nth_subpath(path_list, n) ==
    IF n >= Len(path_list)
    THEN LET lastpath == path_list[Len(path_list)]
         IN  Repeat(lastpath[Len(lastpath)], n_points_per_cubic_curve)
    ELSE TrimNullTail(path_list[n + 1])

Max(a, b) == IF a >= b THEN a ELSE b

\* the loop over the pairs of subpaths: the two new buffers; with swapped,
\* each subpath gets the other one's number of curves to insert
AlignSubpaths(subpaths1, subpaths2, swapped) ==
    LET nppcc == n_points_per_cubic_curve
        n_subpaths == Max(Len(subpaths1), Len(subpaths2))
        sp1(n) == get_nth_subpath(subpaths1, n)
        sp2(n) == get_nth_subpath(subpaths2, n)
        diff1(n) == Max(0, (Len(sp2(n)) - Len(sp1(n))) \div nppcc)
        diff2(n) == Max(0, (Len(sp1(n)) - Len(sp2(n))) \div nppcc)
        d1(n) == IF swapped THEN diff2(n) ELSE diff1(n)
        d2(n) == IF swapped THEN diff1(n) ELSE diff2(n)
    IN  [p1 |-> Flatten([i \in 1..n_subpaths |->
                   insert_n_curves_to_point_list(d1(i - 1), sp1(i - 1)).points]),
         p2 |-> Flatten([i \in 1..n_subpaths |->
                   insert_n_curves_to_point_list(d2(i - 1), sp2(i - 1)).points])]

AlignFull(self_points, vm_points, swapped) ==
    LET a == AlignPrepare(self_points)
        b == AlignPrepare(vm_points)
        r == AlignSubpaths(get_subpaths(a), get_subpaths(b), swapped)
    IN  [err |-> "ok", points |-> r.p1, other |-> r.p2]

\* align_points whose diff1 and diff2 are swapped
align_points_SwappedDiff(self_points, vm_points) ==
    IF Len(self_points) = Len(vm_points)
    THEN [err |-> "ok", points |-> self_points, other |-> vm_points]
    ELSE AlignFull(self_points, vm_points, TRUE)

\* align_points without the shortcut for equally many points
align_points_NoShortcut(self_points, vm_points) ==
    AlignFull(self_points, vm_points, FALSE)

\* self.align_points(vmobject): the two buffers after the call
align_points(self_points, vm_points) ==
    IF Len(self_points) = Len(vm_points)
    THEN [err |-> "ok", points |-> self_points, other |-> vm_points]
    ELSE AlignFull(self_points, vm_points, FALSE)

\* align_points is called MaxAligns times in a row
MaxAligns == 2

PathM0 == start_new_path(PathE, Q(0)).points
PathLN == add_line_to(PathL1, Q(0)).points
PathJ3 == add_line_to(PathJ2, Q(1)).points
PathNJ == add_line_to(start_new_path(PathLN, Q(1)).points, Q(2)).points

\* the pairs of VMobjects that are aligned, each built by the operations of
\* the path buffer
AlignPaths == {PathE, PathM, PathM0, PathL1, PathL2, PathC1, PathLM, PathJ2,
               PathLN, PathJ3, PathNJ}

AlignPoints ==
    /\ calls < MaxAligns
    /\ calls' = calls + 1
    /\ LET r == align_points(points, other)
       IN  /\ points' = r.points
           /\ other' = r.other
           /\ last' = [op |-> "align_points", err |-> r.err, pre |-> points,
                       n |-> 0, a |-> Q(0), b |-> Q(0), vm |-> other]
    /\ UNCHANGED <<chain, dashed, query, containers, rgbas>>

InitAlign ==
    /\ points \in AlignPaths
    /\ other \in AlignPaths
    /\ chain = NoChain
    /\ last = NoLast
    /\ calls = 0
    /\ dashed = <<>>
    /\ query = <<>>
    /\ submobjects = <<>>
    /\ submob_dict = <<>>
    /\ rgbas = <<>>

NextAlign == AlignPoints

SpecAlign == InitAlign /\ [][NextAlign]_vars

\* C5 as stated: for any two paths x and y whose buffer lengths are 0 or 1
\* mod 4, after x.align_points(y) both buffers have the same number of
\* points, a multiple of 4.
C5_EqualMultipleOf4 ==
    last.op = "align_points" =>
        /\ Len(points) = Len(other)
        /\ Len(points) % 4 = 0

\* C5 amended: both buffers have the same number of points, hence of
\* curves; it is a multiple of 4 unless x and y had equally many points
\* before the call, and then both buffers are as they were.
C5_EqualLengths ==
    last.op = "align_points" =>
        /\ Len(points) = Len(other)
        /\ get_num_curves(points) = get_num_curves(other)
        /\ IF Len(last.pre) = Len(last.vm)
           THEN points = last.pre /\ other = last.vm
           ELSE Len(points) % 4 = 0

\* a single-marker path aligned with a path of two subpaths
C5_Witness ==
    /\ last.op = "align_points"
    /\ calls = 1
    /\ Len(last.pre) = 1
    /\ Len(get_subpaths(last.vm)) = 2
    /\ Len(points) = Len(other)
    /\ Len(points) = Len(last.vm)
    /\ get_num_curves(points) = 2

-----------------------------------------------------------------------------
(* Dash generator: DashedVMobject.__init__ (specification SpecDash).       *)

\* dash_starts and dash_ends of a generator whose period leaves out the
\* length of the dash
RawDashes_VoidPeriod(closed, n, r, dash_offset) ==
    LET dash_len == RDiv(r, Q(n))
        void_len == IF closed THEN RDiv(RSub(Q(1), r), Q(n))
                    ELSE IF n = 1 THEN RSub(Q(1), r)
                    ELSE RDiv(RSub(Q(1), r), Q(n - 1))
        period == void_len
        phase_shift == RMul(RMod(dash_offset, Q(1)), period)
        pattern_len == IF closed THEN Q(1) ELSE RAdd(Q(1), void_len)
    IN  [dash_len |-> dash_len,
         starts |-> [i \in 1..n |->
                        RMod(RAdd(RMul(Q(i - 1), period), phase_shift),
                             pattern_len)],
         ends |-> [i \in 1..n |->
                      RMod(RAdd(RAdd(RMul(Q(i - 1), period), dash_len),
                                phase_shift),
                           pattern_len)]]

\* dash_starts and dash_ends of a generator whose dashes have the length r
\* each
RawDashes_WholeRatio(closed, n, r, dash_offset) ==
    LET dash_len == r
        void_len == IF closed THEN RDiv(RSub(Q(1), r), Q(n))
                    ELSE IF n = 1 THEN RSub(Q(1), r)
                    ELSE RDiv(RSub(Q(1), r), Q(n - 1))
        period == RAdd(RDiv(r, Q(n)), void_len)
        phase_shift == RMul(RMod(dash_offset, Q(1)), period)
        pattern_len == IF closed THEN Q(1) ELSE RAdd(Q(1), void_len)
    IN  [dash_len |-> dash_len,
         starts |-> [i \in 1..n |->
                        RMod(RAdd(RMul(Q(i - 1), period), phase_shift),
                             pattern_len)],
         ends |-> [i \in 1..n |->
                      RMod(RAdd(RAdd(RMul(Q(i - 1), period), dash_len),
                                phase_shift),
                           pattern_len)]]

\* dash_starts and dash_ends as first computed, for i = 0 .. n - 1
RawDashes(closed, n, r, dash_offset) ==
    LET dash_len == RDiv(r, Q(n))
        void_len == IF closed THEN RDiv(RSub(Q(1), r), Q(n))
                    ELSE IF n = 1 THEN RSub(Q(1), r)
                    ELSE RDiv(RSub(Q(1), r), Q(n - 1))
        period == RAdd(dash_len, void_len)
        phase_shift == RMul(RMod(dash_offset, Q(1)), period)
        pattern_len == IF closed THEN Q(1) ELSE RAdd(Q(1), void_len)
    IN  [dash_len |-> dash_len,
         starts |-> [i \in 1..n |->
                        RMod(RAdd(RMul(Q(i - 1), period), phase_shift),
                             pattern_len)],
         ends |-> [i \in 1..n |->
                      RMod(RAdd(RAdd(RMul(Q(i - 1), period), dash_len),
                                phase_shift),
                           pattern_len)]]

\* the treatment of the last dash without the branch that clips its end
CorrectLastDash_NoClip(raw) ==
    LET n == Len(raw.starts)
        s == raw.starts
        e == raw.ends
        SetLast(q, x) == [i \in 1..n |-> IF i = n THEN x ELSE q[i]]
    IN  IF RLt(Q(1), e[n]) /\ RLt(Q(1), s[n])
        THEN [starts |-> SubSeq(s, 1, n - 1), ends |-> SubSeq(e, 1, n - 1)]
        ELSE IF RLt(e[n], raw.dash_len)
        THEN IF RLt(s[n], Q(1))
             THEN [starts |-> Append(s, Q(0)),
                   ends |-> Append(SetLast(e, Q(1)), e[n])]
             ELSE [starts |-> SetLast(s, Q(0)), ends |-> e]
        ELSE [starts |-> s, ends |-> e]

\* the treatment of the last dash of a shape that is not closed
CorrectLastDash(raw) ==
    LET n == Len(raw.starts)
        s == raw.starts
        e == raw.ends
        SetLast(q, x) == [i \in 1..n |-> IF i = n THEN x ELSE q[i]]
    IN  IF RLt(Q(1), e[n]) /\ RLt(Q(1), s[n])
        THEN [starts |-> SubSeq(s, 1, n - 1), ends |-> SubSeq(e, 1, n - 1)]
        ELSE IF RLt(e[n], raw.dash_len)
        THEN IF RLt(s[n], Q(1))
             THEN [starts |-> Append(s, Q(0)),
                   ends |-> Append(SetLast(e, Q(1)), e[n])]
             ELSE [starts |-> SetLast(s, Q(0)), ends |-> e]
        ELSE IF RLt(RSub(Q(1), raw.dash_len), s[n])
        THEN [starts |-> s, ends |-> SetLast(e, Q(1))]
        ELSE [starts |-> s, ends |-> e]

\* a generator that treats the last dash of a closed shape as it treats
\* that of an open one
DashStartsEnds_AlwaysCorrect(closed, n, r, dash_offset) ==
    CorrectLastDash(RawDashes(closed, n, r, dash_offset))

\* dash_starts and dash_ends as handed to get_subcurve, for n > 0
DashStartsEnds(closed, n, r, dash_offset) ==
    LET raw == RawDashes(closed, n, r, dash_offset)
    IN  IF closed THEN [starts |-> raw.starts, ends |-> raw.ends]
        ELSE CorrectLastDash(raw)

-----------------------------------------------------------------------------
(* Curve lengths, and the dashes as submobjects.                           *)

\* np.linspace(0, 1, m), m >= 1
Linspace(m) == [i \in 1..m |-> IF m = 1 THEN Q(0) ELSE R(i - 1, m - 1)]

\* the default of sample_points
DefaultSamplePoints == 10

\* n counts from 0
get_nth_curve_points(pts, n) == Chunk(pts, n + 1)

get_nth_curve_length_pieces(pts, n, sample_points) ==
    Only({[i \in 1..(sample_points - 1) |-> RAbs(RSub(ps[i + 1], ps[i]))] :
          ps \in {[i \in 1..sample_points |->
                     bezier(get_nth_curve_points(pts, n),
                            Linspace(sample_points)[i])]}})

get_nth_curve_length(pts, n) ==
    RSum(get_nth_curve_length_pieces(pts, n, DefaultSamplePoints))

get_arc_length(pts) ==
    RSum([k \in 1..get_num_curves(pts) |-> get_nth_curve_length(pts, k - 1)])

\* np.cumsum
CumSum(s) == Only({[i \in 1..Len(x) |-> RSum(SubSeq(x, 1, i))] : x \in {s}})

\* np.interp(x, xp, fp) for nondecreasing xp
np_interp(x, xp, fp) ==
    LET m == Len(xp)
    IN  IF RLe(x, xp[1]) THEN fp[1]
        ELSE IF RLe(xp[m], x) THEN fp[m]
        ELSE Only({RAdd(fp[j],
                        RMul(RDiv(RSub(fp[j + 1], fp[j]),
                                  RSub(xp[j + 1], xp[j])),
                             RSub(x, xp[j]))) :
                   j \in {CHOOSE k \in 1..(m - 1) :
                              RLe(xp[k], x) /\ RLt(x, xp[k + 1])}})

\* extraction that never wraps through the closing point
get_subcurve_NoWrap(pts, a, b) ==
    IF has_no_points(pts) THEN Raise("IndexError", <<>>)
    ELSE pointwise_become_partial(pts, pts, a, b)

\* the points of the VMobject that get_subcurve(a, b) returns; is_closed
\* reads points[0], which an empty buffer does not have
get_subcurve(pts, a, b) ==
    IF has_no_points(pts) THEN Raise("IndexError", <<>>)
    ELSE IF is_closed(pts) /\ RLt(b, a)
    THEN LET vmob == pointwise_become_partial(pts, pts, a, Q(1))
             vmob2 == pointwise_become_partial(pts, pts, Q(0), b)
         IN  IF vmob.err # "ok" THEN vmob
             ELSE IF vmob2.err # "ok" THEN vmob2
             ELSE append_vectorized_mobject(vmob.points, vmob2.points)
    ELSE pointwise_become_partial(pts, pts, a, b)

\* length_vals: the running sum of the length pieces of all curves, after 0
LengthVals(pts) ==
    CumSum(<<Q(0)>> \o
           Flatten([k \in 1..get_num_curves(pts) |->
               get_nth_curve_length_pieces(pts, k - 1, DefaultSamplePoints)]))

\* the proportion handed to get_subcurve for the dash proportion x when
\* equal_lengths is set
EqualLengthProportion(length_vals, x) ==
    np_interp(RMul(x, length_vals[Len(length_vals)]), length_vals,
              Linspace(Len(length_vals)))

\* DashedVMobject(vmobject, num_dashes, dashed_ratio, dash_offset,
\* equal_lengths) for num_dashes > 0 and a vmobject that has points: the
\* proportions of the dashes and the submobjects they become
DashedVMobject(vm, n, r, dash_offset, equal_lengths) ==
    Only({
        LET A(x) == IF equal_lengths THEN EqualLengthProportion(length_vals, x)
                    ELSE x
        IN  Only({[starts |-> d.starts, ends |-> d.ends,
                   err |-> IF \E i \in 1..Len(subs) : subs[i].err # "ok"
                           THEN "ValueError" ELSE "ok",
                   submobjects |-> [i \in 1..Len(subs) |-> subs[i].points]] :
                  subs \in {[i \in 1..Len(d.starts) |->
                      Only({get_subcurve(vm, a, b) :
                            a \in {A(d.starts[i])}, b \in {A(d.ends[i])}})]}}) :
        d \in {DashStartsEnds(is_closed(vm), n, r, dash_offset)},
        length_vals \in {IF equal_lengths THEN LengthVals(vm) ELSE <<>>}})

\* num_dashes is drawn from 1..MaxDashes
MaxDashes == 3

DashedRatios == {R(1, 4), R(1, 2), R(4, 5)}

DashOffsets == {Q(0), R(1, 4), R(1, 2), R(3, 4), Q(1), R(-1, 3)}

PathO2 == add_line_to(add_line_to(PathM0, Q(1)).points, Q(3)).points

\* open and closed shapes, each built by the operations of the path buffer
DashPaths == {PathL1, PathL2, PathM, PathJ3, PathO2}

InitDash ==
    /\ points \in DashPaths
    /\ other = <<>>
    /\ chain = NoChain
    /\ last = NoLast
    /\ calls = 0
    /\ \E n \in 1..MaxDashes, r \in DashedRatios, o \in DashOffsets,
          eq \in BOOLEAN :
           dashed = [made |-> FALSE, num_dashes |-> n, dashed_ratio |-> r,
                     dash_offset |-> o, equal_lengths |-> eq,
                     starts |-> <<>>, ends |-> <<>>, err |-> "ok",
                     submobjects |-> <<>>]
    /\ query = <<>>
    /\ submobjects = <<>>
    /\ submob_dict = <<>>
    /\ rgbas = <<>>

DashedVMobjectInit ==
    /\ ~dashed.made
    /\ LET r == DashedVMobject(points, dashed.num_dashes, dashed.dashed_ratio,
                               dashed.dash_offset, dashed.equal_lengths)
       IN  dashed' = [dashed EXCEPT !.made = TRUE, !.starts = r.starts,
                                    !.ends = r.ends, !.err = r.err,
                                    !.submobjects = r.submobjects]
    /\ UNCHANGED <<points, other, chain, last, calls, query, containers, rgbas>>

NextDash == DashedVMobjectInit

SpecDash == InitDash /\ [][NextDash]_vars

\* C7 as stated: with num_dashes = k >= 1 there are at most k dashes when
\* the source path is not closed, and exactly k when it is closed.
C7_AtMostK ==
    dashed.made =>
        IF is_closed(points)
        THEN Len(dashed.submobjects) = dashed.num_dashes
        ELSE Len(dashed.submobjects) <= dashed.num_dashes

\* C7 amended: at most k + 1 dashes when the source path is not closed (a
\* last dash that overflows the end is cut in two: its tail, and a new dash
\* at proportion 0), and exactly k when it is closed.
C7_AtMostKPlus1 ==
    dashed.made =>
        /\ dashed.err = "ok"
        /\ IF is_closed(points)
           THEN Len(dashed.submobjects) = dashed.num_dashes
           ELSE /\ Len(dashed.submobjects) <= dashed.num_dashes + 1
                /\ Len(dashed.submobjects) >= dashed.num_dashes - 1

\* an open path whose last dash was cut in two
C7_Witness ==
    /\ dashed.made
    /\ ~is_closed(points)
    /\ Len(dashed.submobjects) = dashed.num_dashes + 1

-----------------------------------------------------------------------------
(* Proportions along the path.                                             *)

\* the lengths of all curves, in index order
CurveLengths(pts) ==
    [k \in 1..get_num_curves(pts) |-> get_nth_curve_length(pts, k - 1)]

\* the loop of point_from_proportion over (curve, length), from the k-th
\* (1-based) curve on, with current_length accumulated so far; k in the
\* result counts from 0
RECURSIVE PointFromProportionLoop(_, _, _, _, _)
PointFromProportionLoop(pts, lengths, target_length, k, current_length) ==
    IF k > Len(lengths)
    THEN [err |-> "Exception", k |-> 0, residue |-> Q(0), point |-> Q(0)]
    ELSE IF RLe(target_length, RAdd(current_length, lengths[k]))
    THEN Only({[err |-> "ok", k |-> k - 1, residue |-> residue,
                point |-> bezier(get_nth_curve_points(pts, k - 1), residue)] :
               residue \in {IF lengths[k] # Q(0)
                            THEN RDiv(RSub(target_length, current_length),
                                      lengths[k])
                            ELSE Q(0)}})
    ELSE Only({PointFromProportionLoop(pts, lengths, target_length, k + 1, c) :
               c \in {RAdd(current_length, lengths[k])}})

\* the walk over the curves for target_length = alpha * (sum of lengths)
PointFromProportionWalk(pts, alpha) ==
    Only({PointFromProportionLoop(pts, lengths, RMul(alpha, RSum(lengths)),
                                  1, Q(0)) :
          lengths \in {CurveLengths(pts)}})

\* point_from_proportion without the return of points[-1] for alpha = 1
point_from_proportion_NoShortcut(pts, alpha) ==
    IF RLt(alpha, Q(0)) \/ RLt(Q(1), alpha)
    THEN [err |-> "ValueError", k |-> 0, residue |-> Q(0), point |-> Q(0)]
    ELSE IF has_no_points(pts)
    THEN [err |-> "NoPoints", k |-> 0, residue |-> Q(0), point |-> Q(0)]
    ELSE PointFromProportionWalk(pts, alpha)

\* point_from_proportion(alpha): the point, with the curve (from 0) and the
\* residue it was evaluated at
point_from_proportion(pts, alpha) ==
    IF RLt(alpha, Q(0)) \/ RLt(Q(1), alpha)
    THEN [err |-> "ValueError", k |-> 0, residue |-> Q(0), point |-> Q(0)]
    ELSE IF has_no_points(pts)
    THEN [err |-> "NoPoints", k |-> 0, residue |-> Q(0), point |-> Q(0)]
    ELSE IF alpha = Q(1)
    THEN [err |-> "ok", k |-> 0, residue |-> Q(0), point |-> pts[Len(pts)]]
    ELSE PointFromProportionWalk(pts, alpha)

\* the parameters among which the roots of a curve that is not a straight,
\* evenly parametrised line are sought: multiples of 1 / GridDen
GridDen == 12

ParamGrid == {R(i, GridDen) : i \in 0..GridDen}

\* bezier(c, t) = c[1] + t * (c[4] - c[1]) for every t
IsLinear(c) ==
    /\ c[1] # c[4]
    /\ c[2] = interpolate(c[1], c[4], R(1, 3))
    /\ c[3] = interpolate(c[1], c[4], R(2, 3))

\* findTForPoint: the parameters t in [0, 1] at which the curve passes
\* through point
proportions_along_bezier_curve_for_point(point, control_points) ==
    IF IsLinear(control_points)
    THEN Only({IF RLe(Q(0), t) /\ RLe(t, Q(1)) THEN {t} ELSE {} :
               t \in {RDiv(RSub(point, control_points[1]),
                           RSub(control_points[4], control_points[1]))}})
    ELSE {t \in ParamGrid : bezier(control_points, t) = point}

RMax(S) == CHOOSE x \in S : \A y \in S : RLe(y, x)

\* the outcome of 0.0 / 0.0
NaN == <<0, 0>>

IsNumber(v) == v[2] # 0

\* the loop of proportion_from_point from curve n (from 0) on, with
\* target_length accumulated so far, and the division after it
RECURSIVE ProportionFromPointLoop(_, _, _, _)
ProportionFromPointLoop(pts, point, n, target_length) ==
    IF n >= get_num_curves(pts)
    THEN [err |-> "ValueError", n |-> 0, root |-> Q(0), value |-> Q(0)]
    ELSE Only({
        IF proportions_along_bezier # {}
        THEN Only({[err |-> "ok", n |-> n, root |-> RMax(proportions_along_bezier),
                    value |-> IF total_length = Q(0) THEN NaN
                              ELSE RDiv(target, total_length)] :
                   target \in {RAdd(target_length,
                                    RMul(length, RMax(proportions_along_bezier)))},
                   total_length \in {get_arc_length(pts)}})
        ELSE ProportionFromPointLoop(pts, point, n + 1,
                                     RAdd(target_length, length)) :
        length \in {get_nth_curve_length(pts, n)},
        proportions_along_bezier \in
            {proportions_along_bezier_curve_for_point(
                 point, get_nth_curve_points(pts, n))}})

\* proportion_from_point that adds the whole length of the curve the point
\* lies on
proportion_from_point_WholeCurve(pts, point) ==
    IF has_no_points(pts)
    THEN [err |-> "NoPoints", n |-> 0, root |-> Q(0), value |-> Q(0)]
    ELSE Only({IF r.err # "ok" THEN r
               ELSE [r EXCEPT !.value =
                        RDiv(RSum(SubSeq(CurveLengths(pts), 1, r.n + 1)),
                             get_arc_length(pts))] :
               r \in {ProportionFromPointLoop(pts, point, 0, Q(0))}})

\* proportion_from_point(point): the proportion, with the curve (from 0) the
\* point was found on and the root taken there
proportion_from_point(pts, point) ==
    IF has_no_points(pts)
    THEN [err |-> "NoPoints", n |-> 0, root |-> Q(0), value |-> Q(0)]
    ELSE ProportionFromPointLoop(pts, point, 0, Q(0))

\* at most MaxQueries queries are made of one path
MaxQueries == 2

PropZ == add_line_to(PathM0, Q(0)).points
PropC == add_cubic_bezier_curve_to(PathM0, Q(0), Q(1), Q(1)).points

\* the paths that are queried, each built by the operations of the buffer
PropPaths == {PathE, PathM, PathL1, PathO2, PathL2, PathLM, PathLN, PropZ, PropC}

Alphas == {Q(0), R(1, 4), R(1, 3), R(1, 2), R(2, 3), R(3, 4), Q(1),
           R(-1, 4), R(5, 4)}

QueryPoints == {Q(0), R(1, 2), Q(1), R(3, 2), Q(3), Q(5)}

NoQuery == [op |-> "none", alpha |-> Q(0), err |-> "ok", k |-> 0,
            residue |-> Q(0), point |-> Q(0), round_trip |-> FALSE,
            n |-> 0, root |-> Q(0), value |-> Q(0)]

InitProp ==
    /\ points \in PropPaths
    /\ other = <<>>
    /\ chain = NoChain
    /\ last = NoLast
    /\ calls = 0
    /\ dashed = <<>>
    /\ query = NoQuery
    /\ submobjects = <<>>
    /\ submob_dict = <<>>
    /\ rgbas = <<>>

PointFromProportion ==
    /\ calls < MaxQueries
    /\ \E alpha \in Alphas :
           LET r == point_from_proportion(points, alpha)
           IN  query' = [NoQuery EXCEPT !.op = "point_from_proportion",
                                        !.alpha = alpha, !.err = r.err,
                                        !.k = r.k, !.residue = r.residue,
                                        !.point = r.point]
    /\ calls' = calls + 1
    /\ UNCHANGED <<points, other, chain, last, dashed, containers, rgbas>>

\* the point asked about is one of QueryPoints, or the one that
\* point_from_proportion has just returned (round_trip)
ProportionFromPoint ==
    /\ calls < MaxQueries
    /\ \E point \in QueryPoints \cup {query.point} :
           LET r == proportion_from_point(points, point)
           IN  query' = [query EXCEPT !.op = "proportion_from_point",
                                      !.round_trip =
                                          /\ query.op = "point_from_proportion"
                                          /\ query.err = "ok"
                                          /\ point = query.point,
                                      !.point = point, !.err = r.err,
                                      !.n = r.n, !.root = r.root,
                                      !.value = r.value]
    /\ calls' = calls + 1
    /\ UNCHANGED <<points, other, chain, last, dashed, containers, rgbas>>

NextProp == PointFromProportion \/ ProportionFromPoint

SpecProp == InitProp /\ [][NextProp]_vars

\* L_0 + ... + L_(k-1)
LengthBefore(pts, k) == RSum(SubSeq(CurveLengths(pts), 1, k))

\* C8: on a path with at least one complete curve and for alpha in [0, 1),
\* point_from_proportion evaluates curve k at residue r, k the smallest
\* index with L_0 + ... + L_k >= alpha * total and
\* r = (alpha * total - (L_0 + ... + L_(k-1))) / L_k, r = 0 when L_k = 0; r
\* lies in [0, 1] and the failure after the loop is not reached.  For
\* alpha = 1 the last point of the buffer is returned.
C8_CurveAndResidue ==
    (/\ query.op = "point_from_proportion"
     /\ get_num_curves(points) >= 1
     /\ RLe(Q(0), query.alpha) /\ RLe(query.alpha, Q(1)))
    => IF query.alpha = Q(1)
       THEN query.err = "ok" /\ query.point = points[Len(points)]
       ELSE LET target == RMul(query.alpha, get_arc_length(points))
                L_k == get_nth_curve_length(points, query.k)
            IN  /\ query.err = "ok"
                /\ query.k \in 0..(get_num_curves(points) - 1)
                /\ RLe(target, LengthBefore(points, query.k + 1))
                /\ \A j \in 0..(query.k - 1) :
                       RLt(LengthBefore(points, j + 1), target)
                /\ query.residue =
                       IF L_k = Q(0) THEN Q(0)
                       ELSE RDiv(RSub(target, LengthBefore(points, query.k)),
                                 L_k)
                /\ RLe(Q(0), query.residue) /\ RLe(query.residue, Q(1))
                /\ query.point =
                       bezier(get_nth_curve_points(points, query.k),
                              query.residue)

\* a point strictly inside a curve that is not the first
C8_Witness ==
    /\ query.op = "point_from_proportion"
    /\ query.err = "ok"
    /\ RLt(Q(0), query.alpha) /\ RLt(query.alpha, Q(1))
    /\ query.k >= 1
    /\ RLt(Q(0), query.residue) /\ RLt(query.residue, Q(1))

\* all (curve, parameter) pairs of the path with a parameter of ParamGrid
GridPositions(pts) == (1..get_num_curves(pts)) \X ParamGrid

\* no two positions of the path meet, but for the end of a curve and the
\* start of the next
NonSelfIntersecting(pts) ==
    \A u \in GridPositions(pts), v \in GridPositions(pts) :
        (/\ u # v
         /\ bezier(Chunk(pts, u[1]), u[2]) = bezier(Chunk(pts, v[1]), v[2]))
        => \/ v[1] = u[1] + 1 /\ u[2] = Q(1) /\ v[2] = Q(0)
           \/ u[1] = v[1] + 1 /\ v[2] = Q(1) /\ u[2] = Q(0)

SingleSubpath(pts) == Len(get_subpaths(pts)) = 1

\* C9: on a single-subpath, non-self-intersecting path and for x strictly
\* inside (0, 1), proportion_from_point(point_from_proportion(x)) = x, and
\* the curve and parameter proportion_from_point finds are the ones
\* point_from_proportion chose.
C9_RoundTrip ==
    (/\ query.op = "proportion_from_point"
     /\ query.round_trip
     /\ RLt(Q(0), query.alpha) /\ RLt(query.alpha, Q(1))
     /\ SingleSubpath(points)
     /\ NonSelfIntersecting(points))
    => /\ query.err = "ok"
       /\ query.value = query.alpha
       /\ query.n = query.k
       /\ query.root = query.residue

\* a round trip through the second curve of a path
C9_Witness ==
    /\ query.op = "proportion_from_point"
    /\ query.round_trip
    /\ RLt(Q(0), query.alpha) /\ RLt(query.alpha, Q(1))
    /\ SingleSubpath(points)
    /\ NonSelfIntersecting(points)
    /\ query.k >= 1
    /\ query.value = query.alpha

\* the curves (from 0) the point has a root on
CurvesWithRoot(pts, point) ==
    {n \in 0..(get_num_curves(pts) - 1) :
        proportions_along_bezier_curve_for_point(
            point, get_nth_curve_points(pts, n)) # {}}

\* C10: proportion_from_point stops at the first curve the point has a root
\* on and returns (lengths of the earlier curves + length of that curve *
\* its maximum root) / total arc length, a value in [0, 1]; with no such
\* curve it fails with ValueError, and on an empty path with the no-points
\* error instead.
C10_ValueOrValueError ==
    query.op = "proportion_from_point" =>
        IF points = <<>> THEN query.err = "NoPoints"
        ELSE IF CurvesWithRoot(points, query.point) = {}
        THEN query.err = "ValueError"
        ELSE LET n == CHOOSE i \in CurvesWithRoot(points, query.point) :
                          \A j \in CurvesWithRoot(points, query.point) : i <= j
                 root == RMax(proportions_along_bezier_curve_for_point(
                                  query.point, get_nth_curve_points(points, n)))
             IN  /\ query.err = "ok"
                 /\ query.n = n
                 /\ query.root = root
                 /\ IsNumber(query.value)
                 /\ RMul(query.value, get_arc_length(points)) =
                        RAdd(LengthBefore(points, n),
                             RMul(get_nth_curve_length(points, n), root))
                 /\ RLe(Q(0), query.value) /\ RLe(query.value, Q(1))

\* C10 but for the paths of arc length 0
C10_PositiveLength ==
    get_arc_length(points) # Q(0) => C10_ValueOrValueError

-----------------------------------------------------------------------------
(* Sub-curves.                                                             *)

SubPaths == {PathE, PathM, PathL1, PathL2, PathLM, PathJ3, PathO2, PathLN}

SubProportions == {R(-1, 2), Q(0), R(1, 4), R(1, 2), R(3, 4), Q(1), R(3, 2)}

InitSub ==
    /\ points \in SubPaths
    /\ other = <<>>
    /\ chain = NoChain
    /\ last = NoLast
    /\ calls = 0
    /\ dashed = <<>>
    /\ query = <<>>
    /\ submobjects = <<>>
    /\ submob_dict = <<>>
    /\ rgbas = <<>>

\* other becomes the buffer of the VMobject that get_subcurve returns; the
\* extraction is made on copies (vmob = self.copy())
GetSubcurve ==
    /\ last.op = "init"
    /\ \E a \in SubProportions, b \in SubProportions :
           LET r == get_subcurve(points, a, b)
           IN  /\ other' = r.points
               /\ last' = [op |-> "get_subcurve", err |-> r.err, pre |-> points,
                           n |-> 0, a |-> a, b |-> b, vm |-> <<>>]
    /\ UNCHANGED <<points, chain, calls, dashed, query, containers, rgbas>>

NextSub == GetSubcurve

SpecSub == InitSub /\ [][NextSub]_vars

\* the result of pointwise_become_partial(source, a, b) on a copy of source
Extraction(source, a, b) == pointwise_become_partial(source, source, a, b)

\* C11 as stated: the source keeps its points; for a closed source and
\* a > b the result is the points of the [a, 1] extraction followed by those
\* of the [0, b] extraction; in every other case it is what
\* pointwise_become_partial(source, a, b) produces.
C11_Concatenation ==
    last.op = "get_subcurve" =>
        /\ points = last.pre
        /\ IF points # <<>> /\ is_closed(points) /\ RLt(last.b, last.a)
           THEN /\ last.err = "ok"
                /\ other = Extraction(points, last.a, Q(1)).points
                           \o Extraction(points, Q(0), last.b).points
           ELSE /\ last.err = Extraction(points, last.a, last.b).err
                /\ other = Extraction(points, last.a, last.b).points

\* a buffer without the point that starts a path not yet drawn
WithoutPendingStart(pts) ==
    IF Len(pts) % n_points_per_cubic_curve = 1
    THEN SubSeq(pts, 1, Len(pts) - 1) ELSE pts

\* C11 amended: for a source that holds a point, the source keeps its
\* points; for a closed source and a > b the result is the points of the
\* [a, 1] extraction, less a pending path start at their end, followed by
\* those of the [0, b] extraction (curve count = sum of the two); in every
\* other case it is what pointwise_become_partial(source, a, b) produces.
C11_WrapOrPartial ==
    (last.op = "get_subcurve" /\ last.pre # <<>>) =>
        /\ points = last.pre
        /\ IF is_closed(points) /\ RLt(last.b, last.a)
           THEN /\ last.err = "ok"
                /\ other = WithoutPendingStart(
                               Extraction(points, last.a, Q(1)).points)
                           \o Extraction(points, Q(0), last.b).points
                /\ get_num_curves(other) =
                       get_num_curves(Extraction(points, last.a, Q(1)).points)
                       + get_num_curves(Extraction(points, Q(0), last.b).points)
           ELSE /\ last.err = Extraction(points, last.a, last.b).err
                /\ (last.err = "ok" =>
                       other = Extraction(points, last.a, last.b).points)

\* a closed path of two curves, wrapped through its closing point
C11_Witness ==
    /\ last.op = "get_subcurve"
    /\ last.err = "ok"
    /\ is_closed(points)
    /\ RLt(last.b, last.a)
    /\ get_num_curves(points) = 2
    /\ get_num_curves(other) >= 2

-----------------------------------------------------------------------------
(* Subpaths.                                                               *)

\* the lengths of the first i slices, added up
SlicesEnd(slices, i) == Len(Flatten(SubSeq(slices, 1, i)))

\* C12: get_subpaths returns, in buffer order, slices that each hold a whole
\* number (>= 1) of 4-point curves and whose concatenation is the complete
\* curves of the buffer; two consecutive curves lie in the same slice if and
\* only if the end anchor of the first equals the start anchor of the
\* second.
C12_MaximalRuns ==
    LET nppcc == n_points_per_cubic_curve
        slices == get_subpaths(points)
        m == get_num_curves(points)
    IN  /\ \A i \in 1..Len(slices) :
               Len(slices[i]) >= nppcc /\ Len(slices[i]) % nppcc = 0
        /\ Flatten(slices) = SubSeq(points, 1, nppcc * m)
        /\ \A j \in 1..(m - 1) :
               (\E i \in 1..Len(slices) : SlicesEnd(slices, i) = nppcc * j)
               <=> ~consider_points_equals(points[nppcc * j],
                                           points[nppcc * j + 1])

\* the buffer ends in the start of a path not yet drawn, at the very point
\* where its last curve ends
PendingStartAtLastAnchor(pts) ==
    /\ Len(pts) % n_points_per_cubic_curve = 1
    /\ Len(pts) > 1
    /\ consider_points_equals(pts[Len(pts) - 1], pts[Len(pts)])

\* C12 but for the buffers with a pending start at the last anchor
C12_NoPendingStartAtLastAnchor ==
    ~PendingStartAtLastAnchor(points) => C12_MaximalRuns

-----------------------------------------------------------------------------
(* Extending a path that has no points.                                    *)

\* the last call extended a path that had no points
ExtendedEmptyPath ==
    /\ last.pre = <<>>
    /\ \/ last.op \in {"add_line_to", "add_quadratic_bezier_curve_to",
                       "add_cubic_bezier_curve_to", "add_points_as_corners"}
       \/ last.op = "add_smooth_curve_to" /\ Len(last.vm) \in {1, 2}

\* C13: add_line_to, add_quadratic_bezier_curve_to,
\* add_cubic_bezier_curve_to, add_smooth_curve_to (with 1 or 2 points) and
\* add_points_as_corners on a path with no points all fail with the error of
\* throw_error_if_no_points, and the buffer is still empty afterwards.
C13_SameNoPointsError ==
    ExtendedEmptyPath => last.err = "NoPoints" /\ points = <<>>

\* C13 but for which error it is
C13_FailsAndStaysEmpty ==
    ExtendedEmptyPath => last.err # "ok" /\ points = <<>>

-----------------------------------------------------------------------------
(* Operations that check their arguments.                                  *)

\* the buffer that is left when the four sequences are dispatched without
\* the check of their lengths: np.empty is assigned before the slices fail
set_anchors_and_handles_LateFailure(pts, anchors1, handles1, handles2, anchors2) ==
    IF Len(anchors1) = Len(handles1) /\ Len(handles1) = Len(handles2)
       /\ Len(handles2) = Len(anchors2)
    THEN Ok(Flatten([i \in 1..Len(anchors1) |->
                <<anchors1[i], handles1[i], handles2[i], anchors2[i]>>]))
    ELSE Raise("ValueError",
               Repeat(Q(0), n_points_per_cubic_curve * Len(anchors1)))

set_anchors_and_handles(pts, anchors1, handles1, handles2, anchors2) ==
    IF ~(Len(anchors1) = Len(handles1) /\ Len(handles1) = Len(handles2)
         /\ Len(handles2) = Len(anchors2))
    THEN Raise("AssertionError", pts)
    ELSE Ok(Flatten([i \in 1..Len(anchors1) |->
                <<anchors1[i], handles1[i], handles2[i], anchors2[i]>>]))

\* one subpath with its handles at 1/3 and 2/3 between its anchors; anchors
\* are subpath[::nppcc] and then subpath[-1:]
JaggedSubpath(subpath) ==
    LET nppcc == n_points_per_cubic_curve
        starts == get_start_anchors(subpath)
        anchors == Append(starts, subpath[Len(subpath)])
    IN  [i \in 1..Len(subpath) |->
            LET k == (i - 1) \div nppcc + 1
            IN  IF (i - 1) % nppcc = 1
                THEN interpolate(anchors[k], anchors[k + 1], R(1, 3))
                ELSE IF (i - 1) % nppcc = 2
                THEN interpolate(anchors[k], anchors[k + 1], R(2, 3))
                ELSE subpath[i]]

\* change_anchor_mode(mode) for mode "jagged" and for a mode that is neither
\* "jagged" nor "smooth".  A subpath of 4k + 1 points has k + 1 handles for
\* the k slots of new_subpath[1::nppcc]: the assignment fails after
\* clear_points and after the subpaths before it were appended
change_anchor_mode(pts, mode) ==
    IF mode \notin {"jagged", "smooth"} THEN Raise("AssertionError", pts)
    ELSE IF has_no_points(pts) THEN Ok(pts)
    ELSE LET subpaths == get_subpaths(pts)
             whole == SelectSeq(subpaths,
                          LAMBDA sp : Len(sp) % n_points_per_cubic_curve = 0)
             new == Flatten([i \in 1..Len(whole) |-> JaggedSubpath(whole[i])])
         IN  IF Len(whole) = Len(subpaths) THEN Ok(new)
             ELSE Raise("ValueError", new)

\* the signed area under the anchors; all points lie on one axis
shoelace(anchors) == Q(0)

shoelace_direction(anchors) ==
    IF RLt(Q(0), shoelace(anchors)) THEN "CW" ELSE "CCW"

get_direction(pts) == shoelace_direction(get_start_anchors(pts))

force_direction(pts, target_direction) ==
    IF target_direction \notin {"CW", "CCW"} THEN Raise("ValueError", pts)
    ELSE IF get_direction(pts) # target_direction THEN reverse_direction(pts)
    ELSE Ok(pts)

PathMM == start_new_path(PathM0, Q(0)).points

CheckedPaths == {PathE, PathM, PathL1, PathL2, PathLM, PathJ3, PathMM, PathC1}

Directions == {"CW", "CCW", "UP"}

AnchorModes == {"jagged", "zigzag"}

AnchorSeqs == {<<Q(0)>>, <<Q(0), Q(1)>>}

ManySmoothArgs == {<<>>, <<Q(1)>>, <<Q(0), Q(1)>>, <<Q(0), Q(1), Q(0)>>}

NoChecked == [op |-> "init", err |-> "ok", pre |-> <<>>, arg |-> <<>>]

InitChecked ==
    /\ points \in CheckedPaths
    /\ other = <<>>
    /\ chain = NoChain
    /\ last = NoChecked
    /\ calls = 0
    /\ dashed = <<>>
    /\ query = <<>>
    /\ submobjects = <<>>
    /\ submob_dict = <<>>
    /\ rgbas = <<>>

\* the call op(arg) with result r, the one call made on the path
Checked(op, arg, r) ==
    /\ last.op = "init"
    /\ points' = r.points
    /\ last' = [op |-> op, err |-> r.err, pre |-> points, arg |-> arg]
    /\ UNCHANGED <<other, chain, calls, dashed, query, containers, rgbas>>

CheckedPointFromProportion ==
    \E alpha \in Alphas :
        Checked("point_from_proportion", alpha,
                [err |-> point_from_proportion(points, alpha).err,
                 points |-> points])

CheckedForceDirection ==
    \E d \in Directions :
        Checked("force_direction", d, force_direction(points, d))

CheckedSetAnchorsAndHandles ==
    \E a1 \in AnchorSeqs, h1 \in AnchorSeqs, h2 \in AnchorSeqs, a2 \in AnchorSeqs :
        Checked("set_anchors_and_handles", <<a1, h1, h2, a2>>,
                set_anchors_and_handles(points, a1, h1, h2, a2))

CheckedChangeAnchorMode ==
    \E m \in AnchorModes :
        Checked("change_anchor_mode", m, change_anchor_mode(points, m))

CheckedAddSmoothCurveTo ==
    \E c \in ManySmoothArgs :
        Checked("add_smooth_curve_to", c, add_smooth_curve_to(points, c))

NextChecked ==
    \/ CheckedPointFromProportion
    \/ CheckedForceDirection
    \/ CheckedSetAnchorsAndHandles
    \/ CheckedChangeAnchorMode
    \/ CheckedAddSmoothCurveTo

SpecChecked == InitChecked /\ [][NextChecked]_vars

\* the last call was made with an argument the operation does not accept
InvalidArgument ==
    \/ /\ last.op = "point_from_proportion"
       /\ RLt(last.arg, Q(0)) \/ RLt(Q(1), last.arg)
    \/ last.op = "force_direction" /\ last.arg \notin {"CW", "CCW"}
    \/ /\ last.op = "set_anchors_and_handles"
       /\ \E i \in 1..3 : Len(last.arg[i]) # Len(last.arg[i + 1])
    \/ last.op = "change_anchor_mode" /\ last.arg \notin {"jagged", "smooth"}
    \/ last.op = "add_smooth_curve_to" /\ Len(last.arg) \notin {1, 2}

\* C14: point_from_proportion with alpha outside [0, 1], force_direction
\* with a target other than "CW"/"CCW", set_anchors_and_handles with
\* sequences of unequal length, change_anchor_mode with a mode other than
\* "jagged"/"smooth" and add_smooth_curve_to with 0 or more than 2 points
\* each fail and leave the points buffer exactly as it was.
C14_InvalidArgumentFails ==
    InvalidArgument =>
        /\ last.err \in {"ValueError", "AssertionError"}
        /\ points = last.pre

\* unequal sequences handed to a path that has curves
C14_Witness ==
    /\ InvalidArgument
    /\ last.op = "set_anchors_and_handles"
    /\ get_num_curves(last.pre) >= 1
    /\ last.err = "AssertionError"

-----------------------------------------------------------------------------
(* Containers: VGroup and VDict.                                           *)

\* plain VMobjects
Leaves == {"a", "b", "c"}

\* the VGroups vg and vg2, the VGroup that + or - has constructed last, and
\* the VDict vd
Groups == {"vg", "vg2", "new"}

Containers == Groups \cup {"vd"}

\* a Mobject that is no VMobject, and a number
Others == {"mob", "num"}

type(x) ==
    IF x \in Leaves THEN "VMobject"
    ELSE IF x \in Groups THEN "VGroup"
    ELSE IF x = "vd" THEN "VDict"
    ELSE IF x = "mob" THEN "Mobject"
    ELSE "int"

\* isinstance(x, vmobject_render_type)
IsVMobject(x) == type(x) \in {"VMobject", "VGroup", "VDict"}

\* an argument of VGroup.add: one value, or an iterable of values that is no
\* Mobject
Value(x) == [iterable |-> FALSE, values |-> <<x>>]
Iter(xs) == [iterable |-> TRUE, values |-> xs]

Members(seq) == {seq[i] : i \in 1..Len(seq)}

NoInfo == [value |-> "none", parameter |-> 0, index |-> 0, type |-> "none"]

\* submobjects is the list of self after the call, info what the error
\* message names
Done(subs) == [err |-> "ok", submobjects |-> subs, info |-> NoInfo]
Failed(e, subs, info) == [err |-> e, submobjects |-> subs, info |-> info]

\* Mobject.add(*mobjects): repetitions, and mobjects that are members
\* already, are ignored
RECURSIVE AddEach(_, _)
AddEach(subs, mobjects) ==
    IF mobjects = <<>> THEN subs
    ELSE AddEach(IF Head(mobjects) \in Members(subs) THEN subs
                 ELSE Append(subs, Head(mobjects)),
                 Tail(mobjects))

Mobject_add(self, subs, mobjects) ==
    IF \E i \in 1..Len(mobjects) : ~IsVMobject(mobjects[i])
    THEN LET i == CHOOSE k \in 1..Len(mobjects) :
                      /\ ~IsVMobject(mobjects[k])
                      /\ \A j \in 1..(k - 1) : IsVMobject(mobjects[j])
         IN  Failed("TypeError", subs,
                    [value |-> mobjects[i], parameter |-> i - 1, index |-> 0,
                     type |-> type(mobjects[i])])
    ELSE IF self \in Members(mobjects) THEN Failed("ValueError", subs, NoInfo)
    ELSE Done(AddEach(subs, mobjects))

\* Mobject.remove(*mobjects)
Mobject_remove(subs, mobjects) ==
    Done(SelectSeq(subs, LAMBDA m : m \notin Members(mobjects)))

\* the values of all arguments in the order VGroup.add visits them, each
\* with the index of its parameter and its index in that parameter
Visited(vmobjects) ==
    Flatten([i \in 1..Len(vmobjects) |->
        [j \in 1..Len(vmobjects[i].values) |->
            [value |-> vmobjects[i].values[j], parameter |-> i - 1,
             index |-> j - 1, type |-> type(vmobjects[i].values[j])]]])

\* VGroup.add that hands each value to Mobject.add as soon as it is visited
VGroup_add_OneByOne(self, subs, vmobjects) ==
    LET visited == Visited(vmobjects)
        invalid == SelectSeq(visited, LAMBDA e : ~IsVMobject(e.value))
        before == SelectSeq(visited, LAMBDA e :
                      \/ invalid = <<>>
                      \/ e.parameter < invalid[1].parameter
                      \/ /\ e.parameter = invalid[1].parameter
                         /\ e.index < invalid[1].index)
        valid_vmobjects == [i \in 1..Len(before) |-> before[i].value]
    IN  IF invalid # <<>>
        THEN Failed("TypeError", AddEach(subs, valid_vmobjects), invalid[1])
        ELSE Mobject_add(self, subs, valid_vmobjects)

\* VGroup.add(*vmobjects)
VGroup_add(self, subs, vmobjects) ==
    LET visited == Visited(vmobjects)
        invalid == SelectSeq(visited, LAMBDA e : ~IsVMobject(e.value))
        valid_vmobjects == [i \in 1..Len(visited) |-> visited[i].value]
    IN  IF invalid # <<>> THEN Failed("TypeError", subs, invalid[1])
        ELSE Mobject_add(self, subs, valid_vmobjects)

\* VGroup(*vmobjects): the list of the group that is constructed
VGroup_init(vmobjects) == VGroup_add("new", <<>>, vmobjects)

\* self + vmobject that appends also a vmobject that is a member already
VGroup_plus_Append(subs, vmobject) ==
    IF ~IsVMobject(vmobject)
    THEN Failed("TypeError", <<>>,
                [value |-> vmobject, parameter |-> Len(subs), index |-> 0,
                 type |-> type(vmobject)])
    ELSE Done(Append(subs, vmobject))

\* self + vmobject: the list of the group that is constructed
VGroup_plus(subs, vmobject) ==
    VGroup_init([i \in 1..(Len(subs) + 1) |->
                    IF i <= Len(subs) THEN Value(subs[i]) ELSE Value(vmobject)])

\* self - vmobject: the list of the group that is constructed
VGroup_minus(subs, vmobject) ==
    LET copy == VGroup_init([i \in 1..Len(subs) |-> Value(subs[i])])
    IN  IF copy.err # "ok" THEN copy
        ELSE Mobject_remove(copy.submobjects, <<vmobject>>)

\* self[key] = value, key counted from 0
VGroup_setitem(self, subs, key, value) ==
    IF ~IsVMobject(value)
    THEN Failed("TypeError", subs,
                [value |-> value, parameter |-> 0, index |-> 0,
                 type |-> type(value)])
    ELSE IF value = self THEN Failed("ValueError", subs, NoInfo)
    ELSE IF key >= Len(subs) THEN Failed("IndexError", subs, NoInfo)
    ELSE Done([i \in 1..Len(subs) |-> IF i = key + 1 THEN value ELSE subs[i]])

\* VDict: submob_dict is the list of the <<key, value>> pairs in the order
\* the keys were inserted
Keys(dict) == {dict[i][1] : i \in 1..Len(dict)}

Lookup(dict, key) == dict[CHOOSE i \in 1..Len(dict) : dict[i][1] = key][2]

\* submob_dict[key] = mob
Bind(dict, key, mob) ==
    IF key \in Keys(dict)
    THEN [i \in 1..Len(dict) |->
             IF dict[i][1] = key THEN <<key, mob>> ELSE dict[i]]
    ELSE Append(dict, <<key, mob>>)

\* del submob_dict[key]
Unbind(dict, key) == SelectSeq(dict, LAMBDA kv : kv[1] # key)

DictDone(subs, dict) ==
    [err |-> "ok", submobjects |-> subs, submob_dict |-> dict,
     info |-> NoInfo]

DictFailed(e, subs, dict, info) ==
    [err |-> e, submobjects |-> subs, submob_dict |-> dict, info |-> info]

\* VDict.add_key_value_pair(key, value), show_keys false
add_key_value_pair(subs, dict, key, value) ==
    IF ~IsVMobject(value)
    THEN DictFailed("TypeError", subs, dict,
                    [value |-> value, parameter |-> 0, index |-> 0,
                     type |-> type(value)])
    ELSE IF value = "vd" THEN DictFailed("ValueError", subs, dict, NoInfo)
    ELSE DictDone(Mobject_add("vd", subs, <<value>>).submobjects,
                  Bind(dict, key, value))

\* VDict.add(mapping_or_iterable): the pairs one after the other
RECURSIVE VDict_add(_, _, _)
VDict_add(subs, dict, pairs) ==
    IF pairs = <<>> THEN DictDone(subs, dict)
    ELSE LET r == add_key_value_pair(subs, dict, pairs[1][1], pairs[1][2])
         IN  IF r.err # "ok" THEN r
             ELSE VDict_add(r.submobjects, r.submob_dict, Tail(pairs))

\* VDict.remove(key)
VDict_remove(subs, dict, key) ==
    IF key \notin Keys(dict) THEN DictFailed("KeyError", subs, dict, NoInfo)
    ELSE DictDone(Mobject_remove(subs, <<Lookup(dict, key)>>).submobjects,
                  Unbind(dict, key))

\* self[key] = value
VDict_setitem(subs, dict, key, value) ==
    LET removed == IF key \in Keys(dict) THEN VDict_remove(subs, dict, key)
                   ELSE DictDone(subs, dict)
    IN  VDict_add(removed.submobjects, removed.submob_dict, <<<<key, value>>>>)

\* del self[key]
VDict_delitem(subs, dict, key) ==
    IF key \notin Keys(dict) THEN DictFailed("KeyError", subs, dict, NoInfo)
    ELSE DictDone(subs, Unbind(dict, key))

\* The containers under a bounded number of calls.
MaxGroupCalls == 2

\* argument lists of VGroup.add and VGroup(...)
AddArguments ==
    { <<Value("a")>>, <<Value("b")>>, <<Value("a"), Value("b")>>,
      <<Value("a"), Value("a")>>, <<Value("a"), Value("num")>>,
      <<Value("b"), Iter(<<"c", "mob">>)>>, <<Iter(<<"a", "c">>)>>,
      <<Value("mob")>>, <<Value("vg2")>> }

\* right operands of +, +=, -, -=
Operands == {"a", "b", "num"}

\* the groups the calls are made on
Targets == {"vg", "vg2"}

ItemKeys == {0, 1}

ItemValues == {"a", "b", "num"}

DictKeys == {"k1", "k2"}

DictPairs ==
    { <<<<"k1", "a">>>>, <<<<"k2", "b">>>>, <<<<"k1", "a">>, <<"k2", "b">>>>,
      <<<<"k1", "a">>, <<"k2", "num">>>>, <<<<"k1", "a">>, <<"k2", "a">>>> }

NoGroupCall ==
    [op |-> "init", err |-> "ok", self |-> "none", ret |-> "none",
     arg |-> <<>>, key |-> "none", info |-> NoInfo,
     pre |-> [c \in Containers |-> <<>>], pre_dict |-> <<>>]

InitGroup ==
    /\ points = <<>>
    /\ other = <<>>
    /\ chain = NoChain
    /\ last = NoGroupCall
    /\ calls = 0
    /\ dashed = <<>>
    /\ query = <<>>
    /\ submobjects = [c \in Containers |-> <<>>]
    /\ submob_dict = <<>>
    /\ rgbas = <<>>

\* the call op on self with result r, which sets the list of the container
\* written and returns the container ret
GroupCall(op, self, key, arg, written, r, ret) ==
    /\ calls < MaxGroupCalls
    /\ calls' = calls + 1
    /\ submobjects' = [submobjects EXCEPT ![written] = r.submobjects]
    /\ last' = [op |-> op, err |-> r.err, self |-> self,
                ret |-> IF r.err = "ok" THEN ret ELSE "none",
                arg |-> arg, key |-> key, info |-> r.info,
                pre |-> submobjects, pre_dict |-> submob_dict]
    /\ UNCHANGED <<points, other, chain, dashed, query, rgbas>>

VGroupInit ==
    \E vmobjects \in AddArguments :
        /\ GroupCall("VGroup", "new", "none", vmobjects, "new",
                     VGroup_init(vmobjects), "new")
        /\ UNCHANGED submob_dict

VGroupAdd ==
    \E self \in Targets, vmobjects \in AddArguments :
        /\ GroupCall("add", self, "none", vmobjects, self,
                     VGroup_add(self, submobjects[self], vmobjects), self)
        /\ UNCHANGED submob_dict

VGroupRemove ==
    \E self \in Targets, vmobject \in Operands :
        /\ GroupCall("remove", self, "none", vmobject, self,
                     Mobject_remove(submobjects[self], <<vmobject>>), self)
        /\ UNCHANGED submob_dict

VGroupPlus ==
    \E self \in Targets, vmobject \in Operands :
        /\ GroupCall("+", self, "none", vmobject, "new",
                     VGroup_plus(submobjects[self], vmobject), "new")
        /\ UNCHANGED submob_dict

VGroupPlusAssign ==
    \E self \in Targets, vmobject \in Operands :
        /\ GroupCall("+=", self, "none", vmobject, self,
                     VGroup_add(self, submobjects[self], <<Value(vmobject)>>),
                     self)
        /\ UNCHANGED submob_dict

VGroupMinus ==
    \E self \in Targets, vmobject \in Operands :
        /\ GroupCall("-", self, "none", vmobject, "new",
                     VGroup_minus(submobjects[self], vmobject), "new")
        /\ UNCHANGED submob_dict

VGroupMinusAssign ==
    \E self \in Targets, vmobject \in Operands :
        /\ GroupCall("-=", self, "none", vmobject, self,
                     Mobject_remove(submobjects[self], <<vmobject>>), self)
        /\ UNCHANGED submob_dict

VGroupSetItem ==
    \E self \in Targets, key \in ItemKeys, value \in ItemValues :
        /\ GroupCall("setitem", self, key, value, self,
                     VGroup_setitem(self, submobjects[self], key, value),
                     "none")
        /\ UNCHANGED submob_dict

\* a call on the VDict with result r
DictCall(op, key, arg, r) ==
    /\ GroupCall(op, "vd", key, arg, "vd", r, "vd")
    /\ submob_dict' = r.submob_dict

VDictAdd ==
    \E pairs \in DictPairs :
        DictCall("dict_add", "none", pairs,
                 VDict_add(submobjects["vd"], submob_dict, pairs))

VDictRemove ==
    \E key \in DictKeys :
        DictCall("dict_remove", key, "none",
                 VDict_remove(submobjects["vd"], submob_dict, key))

VDictSetItem ==
    \E key \in DictKeys, value \in ItemValues :
        DictCall("dict_setitem", key, value,
                 VDict_setitem(submobjects["vd"], submob_dict, key, value))

VDictDelItem ==
    \E key \in DictKeys :
        DictCall("dict_delitem", key, "none",
                 VDict_delitem(submobjects["vd"], submob_dict, key))

NextGroup ==
    \/ VGroupInit
    \/ VGroupAdd
    \/ VGroupRemove
    \/ VGroupPlus
    \/ VGroupPlusAssign
    \/ VGroupMinus
    \/ VGroupMinusAssign
    \/ VGroupSetItem
    \/ VDictAdd
    \/ VDictRemove
    \/ VDictSetItem
    \/ VDictDelItem

SpecGroup == InitGroup /\ [][NextGroup]_vars

\* C15: a VGroup.add (or +=) with an argument, or an element of an iterable
\* argument, that is no VMobject raises TypeError, the error names the first
\* such value in visiting order with the index of its parameter, its index
\* in the parameter and its type, and the submobjects of the group are what
\* they were before the call.
C15_AllOrNothing ==
    (last.op \in {"add", "+="}) =>
        LET vmobjects == IF last.op = "add" THEN last.arg
                         ELSE <<Value(last.arg)>>
            visited == Visited(vmobjects)
            invalid == {i \in 1..Len(visited) : ~IsVMobject(visited[i].value)}
        IN  invalid # {} =>
                LET first == CHOOSE i \in invalid : \A j \in invalid : i <= j
                IN  /\ last.err = "TypeError"
                    /\ last.info = visited[first]
                    /\ last.info.type = type(last.info.value)
                    /\ submobjects[last.self] = last.pre[last.self]
                    /\ submobjects = last.pre

\* an add fails on a later value after a valid value that was no member
C15_Witness ==
    /\ last.op = "add"
    /\ last.err = "TypeError"
    /\ last.info.parameter + last.info.index > 0
    /\ \E i \in 1..Len(last.arg) :
           \E j \in 1..Len(last.arg[i].values) :
               /\ IsVMobject(last.arg[i].values[j])
               /\ last.arg[i].values[j] \notin Members(last.pre[last.self])
    /\ submobjects = last.pre

\* the containers that hold m as a submobject
Parents(m) == {c \in Containers : m \in Members(submobjects[c])}

\* C16: every mobject is a submobject of at most one container.
C16_ExclusiveOwnership ==
    \A m \in Leaves \cup Containers : Cardinality(Parents(m)) <= 1

\* no mobject stands at two positions of the list
Distinct(seq) ==
    \A i, j \in 1..Len(seq) : i # j => seq[i] # seq[j]

\* C17: the submobjects list of a VGroup never holds the same mobject twice.
C17_NoDuplicates == \A g \in Groups : Distinct(submobjects[g])

\* every call but an item assignment keeps the lists free of repetitions
C17_AddKeepsDistinct ==
    (last.op # "setitem" /\ \A g \in Groups : Distinct(last.pre[g]))
        => \A g \in Groups : Distinct(submobjects[g])

\* the right operand of the last +, +=, - or -=, the group it was applied to
\* and the list of that group before the call
Operand == last.arg
LeftGroup == last.self
Before == last.pre[last.self]

\* C18 as stated: vg + m returns a new group with the members of vg in order
\* and m appended, vg - m a new group with m removed, both leave vg as it
\* was; vg += m and vg -= m change vg likewise and return vg.
C18_AppendedOrRemoved ==
    /\ (last.op = "+" /\ IsVMobject(Operand) /\ Distinct(Before)) =>
           /\ last.ret = "new"
           /\ submobjects["new"] = Append(Before, Operand)
           /\ submobjects[LeftGroup] = Before
    /\ (last.op = "-" /\ Distinct(Before)) =>
           /\ last.ret = "new"
           /\ submobjects["new"] = SelectSeq(Before, LAMBDA x : x # Operand)
           /\ submobjects[LeftGroup] = Before
    /\ (last.op = "+=" /\ IsVMobject(Operand) /\ Distinct(Before)) =>
           /\ last.ret = LeftGroup
           /\ submobjects[LeftGroup] = Append(Before, Operand)
    /\ (last.op = "-=" /\ Distinct(Before)) =>
           /\ last.ret = LeftGroup
           /\ submobjects[LeftGroup]
                  = SelectSeq(Before, LAMBDA x : x # Operand)

\* the list after adding the operand: the operand appended if it was no
\* member, and the same members, each once, if it was one
WithOperand(result) ==
    IF Operand \in Members(Before)
    THEN Distinct(result) /\ Members(result) = Members(Before)
    ELSE result = Append(Before, Operand)

\* C18: for a group without repetitions and a VMobject m, vg + m returns a
\* new group that holds the members of vg with m appended if m was no member
\* (the same members if it was one), vg - m a new group with the members of
\* vg but m in order, and both leave vg as it was; vg += m and vg -= m change
\* the list of vg in that way, return vg and leave every other list alone.
C18_NewGroupOrInPlace ==
    /\ (last.op = "+" /\ IsVMobject(Operand) /\ Distinct(Before)) =>
           /\ last.ret = "new"
           /\ WithOperand(submobjects["new"])
           /\ submobjects[LeftGroup] = Before
    /\ (last.op = "-" /\ Distinct(Before)) =>
           /\ last.ret = "new"
           /\ submobjects["new"] = SelectSeq(Before, LAMBDA x : x # Operand)
           /\ submobjects[LeftGroup] = Before
    /\ (last.op = "+=" /\ IsVMobject(Operand) /\ Distinct(Before)) =>
           /\ last.ret = LeftGroup
           /\ WithOperand(submobjects[LeftGroup])
           /\ \A c \in Containers \ {LeftGroup} :
                  submobjects[c] = last.pre[c]
    /\ (last.op = "-=" /\ Distinct(Before)) =>
           /\ last.ret = LeftGroup
           /\ submobjects[LeftGroup]
                  = SelectSeq(Before, LAMBDA x : x # Operand)
           /\ \A c \in Containers \ {LeftGroup} :
                  submobjects[c] = last.pre[c]

\* vg + m for a member m of vg
C18_Witness ==
    /\ last.op = "+"
    /\ Operand \in Members(Before)
    /\ last.ret = "new"
    /\ submobjects["new"] # Append(Before, Operand)
    /\ submobjects[LeftGroup] = Before

-----------------------------------------------------------------------------
(* Style arrays: align_rgbas.                                              *)

attrs == <<"fill_rgbas", "stroke_rgbas", "background_stroke_rgbas">>

\* stretch_array_to_length(nparray, length), for length >= len(nparray):
\* entry i, counted from 0, is nparray[int(i * len(nparray) / length)]
stretch_array_to_length(nparray, length) ==
    [i \in 1..length |-> nparray[((i - 1) * Len(nparray)) \div length + 1]]

\* align_rgbas that stretches the arrays of vmobject only
align_rgbas_OneWay(self_rgbas, vmobject_rgbas) ==
    [self |-> self_rgbas,
     vmobject |->
        [attr \in DOMAIN vmobject_rgbas |->
            IF Len(self_rgbas[attr]) > Len(vmobject_rgbas[attr])
            THEN stretch_array_to_length(vmobject_rgbas[attr],
                                         Len(self_rgbas[attr]))
            ELSE vmobject_rgbas[attr]]]

\* self.align_rgbas(vmobject): the arrays of both after the call
align_rgbas(self_rgbas, vmobject_rgbas) ==
    [self |->
        [attr \in DOMAIN self_rgbas |->
            IF Len(vmobject_rgbas[attr]) > Len(self_rgbas[attr])
            THEN stretch_array_to_length(self_rgbas[attr],
                                         Len(vmobject_rgbas[attr]))
            ELSE self_rgbas[attr]],
     vmobject |->
        [attr \in DOMAIN vmobject_rgbas |->
            IF Len(self_rgbas[attr]) > Len(vmobject_rgbas[attr])
            THEN stretch_array_to_length(vmobject_rgbas[attr],
                                         Len(self_rgbas[attr]))
            ELSE vmobject_rgbas[attr]]]

\* rgba arrays, each colour a number
RgbaArrays == {<<1>>, <<1, 2>>, <<3, 4, 5>>}

Attrs == {attrs[i] : i \in 1..Len(attrs)}

NoStyleCall == [op |-> "init", err |-> "ok", pre |-> <<>>]

InitRgbas ==
    /\ points = <<>>
    /\ other = <<>>
    /\ chain = NoChain
    /\ last = NoStyleCall
    /\ calls = 0
    /\ dashed = <<>>
    /\ query = <<>>
    /\ submobjects = <<>>
    /\ submob_dict = <<>>
    /\ rgbas \in [self : [Attrs -> RgbaArrays],
                  vmobject : [Attrs -> RgbaArrays]]

\* x.align_rgbas(y), the one call made on the two mobjects
AlignRgbas ==
    /\ last.op = "init"
    /\ rgbas' = align_rgbas(rgbas.self, rgbas.vmobject)
    /\ last' = [op |-> "align_rgbas", err |-> "ok", pre |-> rgbas]
    /\ UNCHANGED <<points, other, chain, calls, dashed, query, containers>>

NextRgbas == AlignRgbas

SpecRgbas == InitRgbas /\ [][NextRgbas]_vars

Longer(m, n) == IF m >= n THEN m ELSE n

\* C19: after x.align_rgbas(y), each of the three arrays has the same length
\* in x and in y, the larger of the two lengths before the call, and an array
\* that was not the shorter one of its pair is what it was before.
C19_LengthsReconciled ==
    last.op = "align_rgbas" =>
        \A attr \in Attrs :
            LET a1 == last.pre.self[attr]
                a2 == last.pre.vmobject[attr]
            IN  /\ Len(rgbas.self[attr]) = Longer(Len(a1), Len(a2))
                /\ Len(rgbas.vmobject[attr]) = Longer(Len(a1), Len(a2))
                /\ Len(a1) >= Len(a2) => rgbas.self[attr] = a1
                /\ Len(a2) >= Len(a1) => rgbas.vmobject[attr] = a2

\* one array of x was stretched, one array of y was stretched, and one pair
\* had equal lengths
C19_Witness ==
    /\ last.op = "align_rgbas"
    /\ Len(last.pre.self["fill_rgbas"]) < Len(last.pre.vmobject["fill_rgbas"])
    /\ Len(last.pre.self["stroke_rgbas"])
           > Len(last.pre.vmobject["stroke_rgbas"])
    /\ Len(last.pre.self["background_stroke_rgbas"])
           = Len(last.pre.vmobject["background_stroke_rgbas"])
    /\ rgbas.self["fill_rgbas"] # last.pre.self["fill_rgbas"]
    /\ rgbas.vmobject["stroke_rgbas"] # last.pre.vmobject["stroke_rgbas"]

-----------------------------------------------------------------------------
(* The dashes as portions of the source path.                              *)

\* the portion of the path between the proportions a and b as intervals of
\* [0, 1]: for a closed path and b < a, the arc that runs through 0
Portion(closed, a, b) ==
    IF closed /\ RLt(b, a) THEN {<<a, Q(1)>>, <<Q(0), b>>} ELSE {<<a, b>>}

\* two intervals have more than one point in common
Overlap(p, q) ==
    /\ RLe(p[1], p[2])
    /\ RLe(q[1], q[2])
    /\ RLt(IF RLe(p[1], q[1]) THEN q[1] ELSE p[1],
           IF RLe(p[2], q[2]) THEN p[2] ELSE q[2])

\* the pairs of proportions handed to get_subcurve: with equal_lengths, the
\* starts and ends after np.interp
FinalDashes ==
    IF ~dashed.equal_lengths
    THEN [i \in 1..Len(dashed.starts) |-> <<dashed.starts[i], dashed.ends[i]>>]
    ELSE Only({[i \in 1..Len(dashed.starts) |->
                   <<EqualLengthProportion(length_vals, dashed.starts[i]),
                     EqualLengthProportion(length_vals, dashed.ends[i])>>] :
               length_vals \in {LengthVals(points)}})

\* C20: the proportion intervals of two dashes of a DashedVMobject have at
\* most boundary points in common (for a closed source path, as arcs modulo
\* 1), as computed and as handed to get_subcurve, and the interval of a dash
\* of an open path never ends before it starts.
C20_DashesDisjoint ==
    dashed.made =>
        /\ \A i, j \in 1..Len(dashed.starts) :
               i < j =>
                   \A p \in Portion(is_closed(points), dashed.starts[i],
                                    dashed.ends[i]),
                      q \in Portion(is_closed(points), dashed.starts[j],
                                    dashed.ends[j]) :
                       ~Overlap(p, q)
        /\ ~is_closed(points) =>
               \A i \in 1..Len(dashed.starts) :
                   RLe(dashed.starts[i], dashed.ends[i])
        /\ \A i, j \in 1..Len(FinalDashes) :
               i < j =>
                   \A p \in Portion(is_closed(points), FinalDashes[i][1],
                                    FinalDashes[i][2]),
                      q \in Portion(is_closed(points), FinalDashes[j][1],
                                    FinalDashes[j][2]) :
                       ~Overlap(p, q)

\* three dashes or more, one of them an arc through 0 of a closed path
C20_Witness ==
    /\ dashed.made
    /\ is_closed(points)
    /\ Len(dashed.starts) >= 3
    /\ \E i \in 1..Len(dashed.starts) :
           /\ RLt(dashed.ends[i], dashed.starts[i])
           /\ RLt(Q(0), dashed.ends[i])

\* an open path whose last dash was cut in two, with other dashes before it
C20_WitnessOpen ==
    /\ dashed.made
    /\ ~is_closed(points)
    /\ dashed.num_dashes >= 2
    /\ Len(dashed.starts) = dashed.num_dashes + 1

-----------------------------------------------------------------------------
(* Extraction of a part of a path: pointwise_become_partial.               *)

PathO3 == add_line_to(PathO2, Q(2)).points

\* the sources: without curves, with one, two and three curves, with a
\* pending path start, with two subpaths, and with a curve that is no line
PartialPaths ==
    {PathE, PathM, PathL1, PathLM, PathO2, PathO3, PathJ3, PathC1}

\* the buffers of the VMobject that becomes the part
PartialTargets == {PathE, PathL1}

PartialProportions ==
    {Q(0), R(1, 4), R(1, 3), R(1, 2), R(2, 3), R(3, 4), Q(1)}

NoExtraction ==
    [op |-> "init", err |-> "ok", pre |-> <<>>, a |-> Q(0), b |-> Q(0),
     c |-> Q(0), bc |-> <<>>, ac |-> <<>>]

InitPartial ==
    /\ points \in PartialPaths
    /\ other \in PartialTargets
    /\ chain = NoChain
    /\ last = NoExtraction
    /\ calls = 0
    /\ dashed = <<>>
    /\ query = <<>>
    /\ submobjects = <<>>
    /\ submob_dict = <<>>
    /\ rgbas = <<>>

\* x.pointwise_become_partial(p, a, b) for the VMobject x with the buffer
\* other and the source p with the buffer points; beside it the parts of p
\* over [b, c] and [a, c], each made on a VMobject of its own that had the
\* buffer of x
BecomePartial ==
    /\ last.op = "init"
    /\ \E a \in PartialProportions, b \in PartialProportions,
          c \in PartialProportions :
           /\ RLe(a, b)
           /\ RLe(b, c)
           /\ other' = pointwise_become_partial(other, points, a, b).points
           /\ last' = [op |-> "pointwise_become_partial",
                       err |-> pointwise_become_partial(other, points,
                                                        a, b).err,
                       pre |-> other, a |-> a, b |-> b, c |-> c,
                       bc |-> pointwise_become_partial(other, points,
                                                       b, c).points,
                       ac |-> pointwise_become_partial(other, points,
                                                       a, c).points]
    /\ UNCHANGED <<points, chain, calls, dashed, query, containers, rgbas>>

NextPartial == BecomePartial

SpecPartial == InitPartial /\ [][NextPartial]_vars

\* the part of p for [a, b] is not the full copy
NotFullCopy(a, b) == ~(RLe(a, Q(0)) /\ RLe(Q(1), b))

\* curve n of a buffer, n counted from 0
Curve(pts, n) == Chunk(pts, n + 1)

\* C21: for a source with N >= 1 curves and a <= b that do not ask for the
\* full copy, the result has ui - li + 1 curves and no pending start: the
\* part of curve li over [lr, ur] if li = ui, and otherwise curve li over
\* [lr, 1], the curves li + 1 .. ui - 1 as they are, and curve ui over
\* [0, ur].  For a source without curves the buffer is left as it was.
C21_ClippedSpan ==
    (last.op = "pointwise_become_partial" /\ NotFullCopy(last.a, last.b)) =>
        LET N == get_num_curves(points)
            lo == integer_interpolate(0, N, last.a)
            up == integer_interpolate(0, N, last.b)
            li == lo[1]
            ui == up[1]
        IN  /\ last.err = "ok"
            /\ N = 0 => other = last.pre
            /\ N >= 1 =>
                   /\ Len(other) = n_points_per_curve * (ui - li + 1)
                   /\ get_num_curves(other) = ui - li + 1
                   /\ ~has_new_path_started(other)
                   /\ li = ui =>
                          other = partial_bezier_points(Curve(points, li),
                                                        lo[2], up[2])
                   /\ li # ui =>
                          /\ Curve(other, 0)
                                 = partial_bezier_points(Curve(points, li),
                                                         lo[2], Q(1))
                          /\ \A k \in (li + 1)..(ui - 1) :
                                 Curve(other, k - li) = Curve(points, k)
                          /\ Curve(other, ui - li)
                                 = partial_bezier_points(Curve(points, ui),
                                                         Q(0), up[2])

\* a part that spans three curves: a clipped first curve, a middle curve
\* and a clipped last curve
C21_Witness ==
    /\ last.op = "pointwise_become_partial"
    /\ NotFullCopy(last.a, last.b)
    /\ get_num_curves(points) = 3
    /\ get_num_curves(other) = 3
    /\ Curve(other, 0) # Curve(points, 0)
    /\ Curve(other, 1) = Curve(points, 1)
    /\ Curve(other, 2) # Curve(points, 2)

\* the index of the curve and the residue at which the part for [a, b]
\* starts and ends
PartStart(a, b) == integer_interpolate(0, get_num_curves(points), a)
PartEnd(a, b) == integer_interpolate(0, get_num_curves(points), b)

\* C22: for a source with N >= 1 curves and a <= b <= c, the part for
\* [a, b] ends at the curve index and residue, and at the point, at which
\* the part for [b, c] starts; the part for [a, c] starts where the part for
\* [a, b] starts and ends where the part for [b, c] ends; and the part for
\* [a, c] has as many curves as the two other parts together, less one.
C22_PartsMeet ==
    (last.op = "pointwise_become_partial" /\ get_num_curves(points) >= 1) =>
        /\ PartEnd(last.a, last.b) = PartStart(last.b, last.c)
        /\ PartStart(last.a, last.b) = PartStart(last.a, last.c)
        /\ PartEnd(last.b, last.c) = PartEnd(last.a, last.c)
        /\ LastAnchor(other) = last.bc[1]
        /\ other[1] = last.ac[1]
        /\ LastAnchor(last.bc) = LastAnchor(last.ac)
        /\ get_num_curves(last.ac)
               = get_num_curves(other) + get_num_curves(last.bc) - 1
        /\ get_num_curves(last.ac)
               = PartEnd(last.a, last.c)[1] - PartStart(last.a, last.c)[1] + 1

\* three parts of a source of three curves, a < b < c, that meet inside a
\* curve and on the border of two curves
C22_Witness ==
    /\ last.op = "pointwise_become_partial"
    /\ get_num_curves(points) = 3
    /\ RLt(last.a, last.b)
    /\ RLt(last.b, last.c)
    /\ PartEnd(last.a, last.b)[2] = Q(0)
    /\ PartEnd(last.a, last.b)[1] > PartStart(last.a, last.b)[1]
    /\ get_num_curves(last.ac) = 3
    /\ get_num_curves(other) = 2
    /\ get_num_curves(last.bc) = 2

-----------------------------------------------------------------------------
(* The dashes of a path that is not closed.                                *)

\* 0 <= a <= b <= 1
InRange(a, b) == RLe(Q(0), a) /\ RLe(a, b) /\ RLe(b, Q(1))

\* C23: for a source that is not closed, every dash but the last lies in
\* [0, 1] as first computed, and after the treatment of the last dash every
\* dash has 0 <= start <= end <= 1, as computed and as handed to
\* get_subcurve, which does not fail.
C23_OpenDashesInRange ==
    (dashed.made /\ ~is_closed(points)) =>
        LET raw == RawDashes(FALSE, dashed.num_dashes, dashed.dashed_ratio,
                             dashed.dash_offset)
        IN  /\ \A i \in 1..(dashed.num_dashes - 1) :
                   InRange(raw.starts[i], raw.ends[i])
            /\ \A i \in 1..Len(dashed.starts) :
                   InRange(dashed.starts[i], dashed.ends[i])
            /\ \A i \in 1..Len(FinalDashes) :
                   InRange(FinalDashes[i][1], FinalDashes[i][2])
            /\ dashed.err = "ok"

\* the last dash began behind the end of an open path and was dropped, and
\* other dashes remain
C23_Witness ==
    /\ dashed.made
    /\ ~is_closed(points)
    /\ dashed.num_dashes >= 2
    /\ Len(dashed.starts) = dashed.num_dashes - 1
    /\ LET raw == RawDashes(FALSE, dashed.num_dashes, dashed.dashed_ratio,
                            dashed.dash_offset)
       IN  RLt(Q(1), raw.starts[dashed.num_dashes])

\* the end of the last dash lay behind the end of an open path and was
\* clipped to 1
C23_WitnessClipped ==
    /\ dashed.made
    /\ ~is_closed(points)
    /\ Len(dashed.starts) = dashed.num_dashes
    /\ LET raw == RawDashes(FALSE, dashed.num_dashes, dashed.dashed_ratio,
                            dashed.dash_offset)
       IN  /\ RLt(Q(1), raw.ends[dashed.num_dashes])
           /\ dashed.ends[dashed.num_dashes] = Q(1)

\* the proportion of the path that dash i covers: end - start, modulo 1 on a
\* closed path
Covered(i) ==
    IF is_closed(points)
    THEN RMod(RSub(dashed.ends[i], dashed.starts[i]), Q(1))
    ELSE RSub(dashed.ends[i], dashed.starts[i])

TotalCovered == RSum([i \in 1..Len(dashed.starts) |-> Covered(i)])

\* C24: on a closed source there are n dashes, each covers r / n of the
\* path and all together r; on an open source with a dash_offset that is an
\* integer the same holds.
C24_CoversRatio ==
    (dashed.made /\ (is_closed(points)
                     \/ RMod(dashed.dash_offset, Q(1)) = Q(0))) =>
        /\ Len(dashed.starts) = dashed.num_dashes
        /\ \A i \in 1..Len(dashed.starts) :
               Covered(i) = RDiv(dashed.dashed_ratio, Q(dashed.num_dashes))
        /\ TotalCovered = dashed.dashed_ratio

\* three dashes on a closed path, one of them through the closing point
C24_Witness ==
    /\ dashed.made
    /\ is_closed(points)
    /\ dashed.num_dashes = 3
    /\ dashed.dash_offset # Q(0)
    /\ \E i \in 1..Len(dashed.starts) :
           RLt(dashed.ends[i], dashed.starts[i])
    /\ TotalCovered = dashed.dashed_ratio

\* on an open path with a dash_offset that is no integer less than r may be
\* covered
C24_OpenShifted ==
    (dashed.made /\ ~is_closed(points)) =>
        /\ RLe(TotalCovered, dashed.dashed_ratio)
        /\ RMod(dashed.dash_offset, Q(1)) = Q(0)
               => TotalCovered = dashed.dashed_ratio

-----------------------------------------------------------------------------
(* start_new_path, close_path (specification Spec).                        *)

\* C25: start_new_path(point) on a buffer of 4k points appends point alone
\* and keeps the number of curves; on a buffer of 4k + 1 points it appends
\* the dangling point three times, which makes it a complete curve of one
\* point (one curve and four points more), and then point as the new pending
\* start; the points present before are kept.
C25_StartNewPath ==
    last.op = "start_new_path" =>
        LET pre == last.pre
            point == last.vm[1]
            m == pre[Len(pre)]
        IN  /\ last.err = "ok"
            /\ SubSeq(points, 1, Len(pre)) = pre
            /\ points[Len(points)] = point
            /\ has_new_path_started(points)
            /\ Len(pre) % 4 = 0 =>
                   /\ points = pre \o <<point>>
                   /\ get_num_curves(points) = get_num_curves(pre)
            /\ Len(pre) % 4 = 1 =>
                   /\ points = pre \o <<m, m, m, point>>
                   /\ Len(points) = Len(pre) + 4
                   /\ get_num_curves(points) = get_num_curves(pre) + 1
                   /\ Curve(points, get_num_curves(pre)) = <<m, m, m, m>>

\* a pending start behind other points is closed and followed by a new
\* pending start at another point
C25_Witness ==
    /\ last.op = "start_new_path"
    /\ Len(last.pre) % 4 = 1
    /\ Len(last.pre) >= 5
    /\ last.vm[1] # last.pre[Len(last.pre)]
    /\ last.pre[1] # last.pre[Len(last.pre)]
    /\ get_num_curves(points) = get_num_curves(last.pre) + 1

\* start_new_path on a buffer of complete curves
C25_WitnessComplete ==
    /\ last.op = "start_new_path"
    /\ Len(last.pre) % 4 = 0
    /\ Len(last.pre) >= 4
    /\ Len(points) = Len(last.pre) + 1

\* Consecutive calls of close_path on paths of one or two subpaths, with
\* and without a pending start.
ClosePts == {Q(0), Q(1), Q(2)}

OneSubpath ==
    {add_line_to(start_new_path(PathE, p0).points, p1).points :
         p0 \in ClosePts, p1 \in ClosePts}

TwoSubpaths ==
    {add_line_to(start_new_path(sp, p2).points, p3).points :
         sp \in OneSubpath, p2 \in ClosePts, p3 \in ClosePts}

ClosePaths ==
    OneSubpath \cup TwoSubpaths
    \cup {start_new_path(sp, p4).points :
              sp \in OneSubpath \cup TwoSubpaths, p4 \in ClosePts}

InitClose ==
    /\ points \in ClosePaths
    /\ other = <<>>
    /\ chain = NoChain
    /\ last = NoLast
    /\ calls = 0
    /\ dashed = <<>>
    /\ query = <<>>
    /\ submobjects = <<>>
    /\ submob_dict = <<>>
    /\ rgbas = <<>>

NextClose == ClosePath

SpecClose == InitClose /\ [][NextClose]_vars

C26_GrowsOtherwise ==
    (/\ last.op = "close_path"
     /\ get_num_curves(last.pre) >= 1
     /\ ~is_closed(last.pre)
     /\ LET sps == get_subpaths(last.pre)
        IN  sps[Len(sps)][1] # last.pre[1]) =>
        /\ ~is_closed(points)
        /\ get_num_curves(points) = get_num_curves(last.pre) + 1

-----------------------------------------------------------------------------
(* change_anchor_mode("jagged") (specification SpecChecked).               *)

\* pts is the buffer pre with no more than its handles changed, each curve
\* with its handles at 1/3 and 2/3 between its anchors, and a further call
\* leaves pts as it is
HandlesOnly(pre, pts) ==
    /\ Len(pts) = Len(pre)
    /\ get_num_curves(pts) = get_num_curves(pre)
    /\ \A i \in 1..Len(pre) :
           (i - 1) % n_points_per_cubic_curve \in {0, 3} => pts[i] = pre[i]
    /\ \A n \in 0..(get_num_curves(pre) - 1) :
           LET c == Curve(pts, n)
           IN  /\ c[2] = interpolate(c[1], c[4], R(1, 3))
               /\ c[3] = interpolate(c[1], c[4], R(2, 3))
    /\ change_anchor_mode(pts, "jagged") = Ok(pts)

\* C27: change_anchor_mode("jagged") on a buffer of 4k or 4k + 1 points
\* keeps the length, the number of curves, the anchors and a pending start,
\* puts the handles of each curve at 1/3 and 2/3 between its anchors, and a
\* second call changes nothing.
C27_HandlesOnly ==
    (/\ last.op = "change_anchor_mode"
     /\ last.arg = "jagged"
     /\ Len(last.pre) % n_points_per_cubic_curve \in {0, 1}) =>
        /\ last.err = "ok"
        /\ HandlesOnly(last.pre, points)

\* the same for the buffers of complete curves, without a pending start
C27_CompleteCurves ==
    (/\ last.op = "change_anchor_mode"
     /\ last.arg = "jagged"
     /\ Len(last.pre) % n_points_per_cubic_curve = 0) =>
        /\ last.err = "ok"
        /\ HandlesOnly(last.pre, points)

\* a pending start is never kept: the call fails, or the buffer has lost
\* its last point
C27_PendingStartLost ==
    (/\ last.op = "change_anchor_mode"
     /\ last.arg = "jagged"
     /\ Len(last.pre) % n_points_per_cubic_curve = 1) =>
        \/ last.err = "ValueError"
        \/ /\ last.err = "ok"
           /\ Len(points) = Len(last.pre) - 1

-----------------------------------------------------------------------------
(* VDict (specification SpecGroup).                                        *)

\* C28: a VDict add or item assignment that fails with TypeError leaves
\* submob_dict and submobjects as they were before the call.
C28_FailedAddChangesNothing ==
    (last.op \in {"dict_add", "dict_setitem"} /\ last.err = "TypeError") =>
        /\ submob_dict = last.pre_dict
        /\ submobjects = last.pre

\* the same for an add of one pair and an assignment to a key that is not
\* present
C28_OnePairNewKey ==
    (/\ last.op \in {"dict_add", "dict_setitem"}
     /\ last.err = "TypeError"
     /\ last.op = "dict_add" => Len(last.arg) = 1
     /\ last.op = "dict_setitem" => last.key \notin Keys(last.pre_dict)) =>
        /\ submob_dict = last.pre_dict
        /\ submobjects = last.pre

\* the mobjects bound to the keys
DictValues(dict) == {dict[i][2] : i \in 1..Len(dict)}

\* C29: the submobjects of the VDict are the values of submob_dict.
C29_SubmobjectsAreValues ==
    Members(submobjects["vd"]) = DictValues(submob_dict)

\* C29 for the calls of add with keys that are not present and values that
\* are no submobjects, and of remove
C29_FreshAddAndRemove ==
    (/\ Members(last.pre["vd"]) = DictValues(last.pre_dict)
     /\ Cardinality(DictValues(last.pre_dict)) = Len(last.pre_dict)
     /\ \/ last.op = "dict_remove"
        \/ /\ last.op = "dict_add"
           /\ last.err = "ok"
           /\ \A i \in 1..Len(last.arg) :
                  /\ last.arg[i][1] \notin Keys(last.pre_dict)
                  /\ last.arg[i][2] \notin DictValues(last.pre_dict)
                  /\ \A j \in 1..Len(last.arg) :
                         i # j => last.arg[i][2] # last.arg[j][2]) =>
        Members(submobjects["vd"]) = DictValues(submob_dict)

-----------------------------------------------------------------------------
(* CurvesAsSubmobjects.                                                    *)

\* CurvesAsSubmobjects(vmobject): the buffers of the submobjects, one for
\* each tuple of get_cubic_bezier_tuples()
CurvesAsSubmobjects(pts) == gen_cubic_bezier_tuples_from_points(pts)

PointResult(e, pt) == [err |-> e, point |-> pt]

\* part.point_from_proportion(residue) for the residue num / part_length of
\* floating-point numbers.  With part_length = 0 the quotient is nan for
\* num = 0 and infinite otherwise; nan passes the tests of alpha (every
\* comparison with nan is false) and the loop over the curves ends without
\* a return, an infinite residue fails the test of the range
PartPointFromProportion(part, num, part_length) ==
    IF part_length # Q(0)
    THEN LET r == point_from_proportion(part, RDiv(num, part_length))
         IN  PointResult(r.err, r.point)
    ELSE IF num = Q(0) THEN PointResult("Exception", Q(0))
    ELSE PointResult("ValueError", Q(0))

\* the loop of CurvesAsSubmobjects.point_from_proportion over the parts from
\* part i on; without a return the method returns None
RECURSIVE CurvesLoop(_, _, _, _, _)
CurvesLoop(parts, lengths, target_length, i, current_length) ==
    IF i > Len(parts) THEN PointResult("None", Q(0))
    ELSE IF RLe(target_length, RAdd(current_length, lengths[i]))
    THEN PartPointFromProportion(parts[i],
                                 RSub(target_length, current_length),
                                 lengths[i])
    ELSE CurvesLoop(parts, lengths, target_length, i + 1,
                    RAdd(current_length, lengths[i]))

\* CurvesAsSubmobjects.point_from_proportion(alpha)
curves_point_from_proportion(parts, alpha) ==
    IF RLt(alpha, Q(0)) \/ RLt(Q(1), alpha) THEN PointResult("ValueError", Q(0))
    ELSE IF Len(parts) = 0 THEN PointResult("Exception", Q(0))
    ELSE LET submobjs_with_pts == SelectSeq(parts, LAMBDA part : Len(part) > 0)
         IN  IF Len(submobjs_with_pts) = 0 THEN PointResult("Exception", Q(0))
             ELSE IF alpha = Q(1)
             THEN LET l == submobjs_with_pts[Len(submobjs_with_pts)]
                  IN  PointResult("ok", l[Len(l)])
             ELSE Only({CurvesLoop(submobjs_with_pts, lengths,
                                   RMul(alpha, RSum(lengths)), 1, Q(0)) :
                        lengths \in {[i \in 1..Len(submobjs_with_pts) |->
                                      get_arc_length(submobjs_with_pts[i])]}})

\* the VMobjects that are converted: one to three lines between the points
\* 0, 1 and 2, lines of length 0 among them
CurvePts == {Q(0), Q(1), Q(2)}

OneLine ==
    {add_line_to(start_new_path(PathE, p0).points, p1).points :
         p0 \in CurvePts, p1 \in CurvePts}

TwoLines == {add_line_to(v, p).points : v \in OneLine, p \in CurvePts}

ThreeLines == {add_line_to(v, p).points : v \in TwoLines, p \in CurvePts}

CurvePaths == OneLine \cup TwoLines \cup ThreeLines

CurveAlphas == {Q(0), R(1, 4), R(1, 2), R(3, 4), Q(1)}

NoCurvesQuery ==
    [op |-> "none", alpha |-> Q(0), err |-> "ok", point |-> Q(0),
     v_err |-> "ok", v_point |-> Q(0)]

InitCurves ==
    /\ points \in CurvePaths
    /\ other = <<>>
    /\ chain = NoChain
    /\ last = NoLast
    /\ calls = 0
    /\ dashed = <<>>
    /\ query = NoCurvesQuery
    /\ submobjects = <<>>
    /\ submob_dict = <<>>
    /\ rgbas = <<>>

\* CurvesAsSubmobjects(v) for the VMobject v with the buffer points
CurvesAsSubmobjectsInit ==
    /\ last.op = "init"
    /\ submobjects' = CurvesAsSubmobjects(points)
    /\ last' = [NoLast EXCEPT !.op = "CurvesAsSubmobjects", !.pre = points]
    /\ UNCHANGED <<points, other, chain, calls, dashed, query, submob_dict,
                   rgbas>>

\* point_from_proportion(alpha) of the CurvesAsSubmobjects, and beside it
\* that of v
CurvesPointFromProportion ==
    /\ last.op = "CurvesAsSubmobjects"
    /\ query.op = "none"
    /\ \E alpha \in CurveAlphas :
           LET r == curves_point_from_proportion(submobjects, alpha)
               v == point_from_proportion(points, alpha)
           IN  query' = [op |-> "point_from_proportion", alpha |-> alpha,
                         err |-> r.err, point |-> r.point,
                         v_err |-> v.err, v_point |-> v.point]
    /\ UNCHANGED <<points, other, chain, last, calls, dashed, containers,
                   rgbas>>

NextCurves ==
    \/ CurvesAsSubmobjectsInit
    \/ CurvesPointFromProportion

SpecCurves == InitCurves /\ [][NextCurves]_vars

\* C30: for a VMobject v with n >= 1 complete curves and no pending start,
\* CurvesAsSubmobjects(v) has n submobjects, the curves of v in order, and
\* its point_from_proportion(alpha) returns the point that
\* v.point_from_proportion(alpha) returns, for every alpha in [0, 1].
C30_SamePoint ==
    /\ last.op = "CurvesAsSubmobjects" =>
           /\ Len(submobjects) = get_num_curves(points)
           /\ \A n \in 0..(get_num_curves(points) - 1) :
                  submobjects[n + 1] = Curve(points, n)
    /\ query.op = "point_from_proportion" =>
           /\ query.v_err = "ok"
           /\ query.err = "ok"
           /\ query.point = query.v_point

\* the same but for the queries that reach a first curve of length 0: alpha
\* = 0, or any alpha below 1 on a path of length 0
C30_FirstCurveHasLength ==
    /\ last.op = "CurvesAsSubmobjects" =>
           /\ Len(submobjects) = get_num_curves(points)
           /\ \A n \in 0..(get_num_curves(points) - 1) :
                  submobjects[n + 1] = Curve(points, n)
    /\ (/\ query.op = "point_from_proportion"
        /\ \/ get_nth_curve_length(points, 0) # Q(0)
           \/ query.alpha = Q(1)
           \/ query.alpha # Q(0) /\ get_arc_length(points) # Q(0)) =>
           /\ query.v_err = "ok"
           /\ query.err = "ok"
           /\ query.point = query.v_point

\* where the first curve has length 0 and the query reaches it, v returns
\* its first point and the CurvesAsSubmobjects fails
C30_FirstCurveNull ==
    (/\ query.op = "point_from_proportion"
     /\ get_nth_curve_length(points, 0) = Q(0)
     /\ query.alpha # Q(1)
     /\ query.alpha = Q(0) \/ get_arc_length(points) = Q(0)) =>
        /\ query.v_err = "ok"
        /\ query.v_point = points[1]
        /\ query.err = "Exception"

=============================================================================
